---------------------------- MODULE Spec2Model ----------------------------
(***************************************************************************)
(* A model of the codegen crate: the ELF linker (link.rs), its address     *)
(* arithmetic (math.rs) and the ELF64 records it emits (elf64.rs).         *)
(*                                                                         *)
(* Rust's u64 does not fit the model checker's integers, so a u64 is a     *)
(* tuple of four 16-bit limbs, most significant first:                     *)
(*     0xffffffff_80000000  is  <<65535, 65535, 32768, 0>>.                *)
(* usize values (data lengths, segment-local offsets) stay plain naturals: *)
(* they are bounded by the memory a Vec<u8> can hold.                      *)
(***************************************************************************)
EXTENDS Integers, Sequences, FiniteSets, TLC

VARIABLES
    segment_headers,  \* ElfLinker.segment_headers : Vec<Phdr>
    segments,         \* ElfLinker.segments : Vec<Segment>
    linked,           \* the Linked value finish() returned, or None
    panic,            \* the failure finish() aborted with, or "none"
    labels,           \* the global label table finish() built
    pc,               \* "building" until finish() is called, then "done"
    call,             \* the arguments of a pure-function call under test
    ret,              \* its result, or Pending
    seg,              \* a Segment under construction
    asm,              \* an Assembler: its segment and its pending_instructions
    history           \* the calls made on seg or asm so far, in order

vars == <<segment_headers, segments, linked, panic, labels, pc, call, ret, seg, asm, history>>

None == [some |-> FALSE]
Some(v) == [some |-> TRUE, val |-> v]
Pending == "pending"
Idle == "idle"

-----------------------------------------------------------------------------
(* u64 arithmetic on 16-bit limbs *)

Limb == 2 ^ 16

U64(n) == <<0, 0, n \div Limb, n % Limb>>

Zero64 == <<0, 0, 0, 0>>

One64 == <<0, 0, 0, 1>>

Lt64(a, b) ==
    \/ a[1] < b[1]
    \/ a[1] = b[1] /\ a[2] < b[2]
    \/ a[1] = b[1] /\ a[2] = b[2] /\ a[3] < b[3]
    \/ a[1] = b[1] /\ a[2] = b[2] /\ a[3] = b[3] /\ a[4] < b[4]

Gt64(a, b) == Lt64(b, a)

Le64(a, b) == ~Lt64(b, a)

\* a + b modulo 2^64
Add64(a, b) ==
    LET s4 == a[4] + b[4]
        s3 == a[3] + b[3] + (s4 \div Limb)
        s2 == a[2] + b[2] + (s3 \div Limb)
        s1 == a[1] + b[1] + (s2 \div Limb)
    IN  <<s1 % Limb, s2 % Limb, s3 % Limb, s4 % Limb>>

\* a - b modulo 2^64
Sub64(a, b) ==
    LET d4 == a[4] - b[4]
        d3 == a[3] - b[3] + (d4 \div Limb)
        d2 == a[2] - b[2] + (d3 \div Limb)
        d1 == a[1] - b[1] + (d2 \div Limb)
    IN  <<d1 % Limb, d2 % Limb, d3 % Limb, d4 % Limb>>

\* the eight bytes of a, least significant first
Bytes64(a) ==
    <<a[4] % 256, a[4] \div 256, a[3] % 256, a[3] \div 256,
      a[2] % 256, a[2] \div 256, a[1] % 256, a[1] \div 256>>

FromBytes64(b) ==
    <<b[8] * 256 + b[7], b[6] * 256 + b[5], b[4] * 256 + b[3], b[2] * 256 + b[1]>>

\* a * b modulo 2^64: schoolbook multiplication on bytes
RECURSIVE MulColumn(_, _, _, _)
MulColumn(x, y, k, i) ==
    IF i > k THEN 0 ELSE x[i] * y[k + 1 - i] + MulColumn(x, y, k, i + 1)

RECURSIVE MulBytes(_, _, _, _)
MulBytes(x, y, k, carry) ==
    IF k > 8 THEN << >>
    ELSE LET t == MulColumn(x, y, k, 1) + carry
         IN  <<t % 256>> \o MulBytes(x, y, k + 1, t \div 256)

Mul64(a, b) == FromBytes64(MulBytes(Bytes64(a), Bytes64(b), 1, 0))

\* bit i of a, bit 0 the least significant
Bit64(a, i) == (a[4 - (i \div 16)] \div (2 ^ (i % 16))) % 2

\* Binary long division of bits i..lo of a by b, most significant bit first;
\* r is the remainder left by the bits above i.  DivRemStep is one step of it,
\* r2 the remainder shifted left with bit i of a moved in.
RECURSIVE DivRemBits(_, _, _, _, _)
RECURSIVE DivRemStep(_, _, _, _, _, _)
DivRemBits(a, b, i, lo, r) ==
    IF i < lo THEN [quot |-> Zero64, rem |-> r]
    ELSE DivRemStep(a, b, i, lo, r, Add64(Add64(r, r), <<0, 0, 0, Bit64(a, i)>>))

SetBit64(d, i) == [d EXCEPT !.quot[4 - (i \div 16)] = @ + 2 ^ (i % 16)]

DivRemStep(a, b, i, lo, r, r2) ==
    IF r[1] >= 32768 \/ Le64(b, r2)
    THEN SetBit64(DivRemBits(a, b, i - 1, lo, Sub64(r2, b)), i)
    ELSE DivRemBits(a, b, i - 1, lo, r2)

\* floor(a / b) and a mod b, limb k of a and the limbs after it; r is the
\* remainder left by the limbs before k
RECURSIVE DivRemLimbs(_, _, _, _)
RECURSIVE DivRemJoin(_, _, _, _)
DivRemLimbs(a, b, k, r) ==
    IF k > 4 THEN [quot |-> Zero64, rem |-> r]
    ELSE DivRemJoin(a, b, k, DivRemBits(a, b, 79 - 16 * k, 64 - 16 * k, r))

DivRemJoin(a, b, k, d) ==
    [DivRemLimbs(a, b, k + 1, d.rem) EXCEPT !.quot[k] = d.quot[k]]

DivRem64(a, b) == DivRemLimbs(a, b, 1, Zero64)

Div64(a, b) == DivRem64(a, b).quot

Mod64(a, b) == DivRem64(a, b).rem

-----------------------------------------------------------------------------
(* link.rs: ReferenceFormat *)

ReferenceFormat == {"Rel8", "Rel32", "Abs32", "Abs64"}

\* ReferenceFormat::len
len(format) ==
    CASE format = "Rel8"  -> 1
      [] format = "Rel32" -> 4
      [] format = "Abs32" -> 4
      [] format = "Abs64" -> 8

\* ReferenceFormat::is_relative
is_relative(format) == format \in {"Rel8", "Rel32"}

\* i8::try_from(u: u64)
I8TryFromU64(u) == IF Le64(u, <<0, 0, 0, 127>>) THEN Some(u[4]) ELSE None

\* i32::try_from(u: u64)
I32TryFromU64(u) ==
    IF Le64(u, <<0, 0, 32767, 65535>>) THEN Some(u[3] * Limb + u[4]) ELSE None

\* `u as i64`: the same 64 bits read as two's complement, kept as sign and magnitude
AsI64(u) ==
    IF u[1] >= 32768 THEN [neg |-> TRUE, mag |-> Sub64(Zero64, u)]
    ELSE [neg |-> FALSE, mag |-> u]

\* i32::try_from(x: i64)
I32TryFromI64(x) ==
    IF ~x.neg /\ Le64(x.mag, <<0, 0, 32767, 65535>>) THEN Some(x.mag[3] * Limb + x.mag[4])
    ELSE IF x.neg /\ Le64(x.mag, <<0, 0, 32768, 0>>) THEN Some((-x.mag[3]) * Limb - x.mag[4])
    ELSE None

\* to_le_bytes of a signed integer of n bytes: two's complement, least significant first
ToLeBytes(v, n) == [k \in 1..n |-> (v \div (256 ^ (k - 1))) % 256]

\* `-offset` on the Option produced by try_from(..).ok()?
NegOpt(o) == IF o.some THEN Some(-o.val) ELSE None

\* Some(offset.to_le_bytes().to_vec()), None passed on by `?`
BytesOpt(o, n) == IF o.some THEN Some(ToLeBytes(o.val, n)) ELSE None

\* resolve, Self::Rel8
resolve_Rel8(own_location, label_location) ==
    LET relative_to == Add64(own_location, U64(1))
        offset == IF Gt64(label_location, relative_to)
                  THEN I8TryFromU64(Sub64(label_location, relative_to))
                  ELSE NegOpt(I8TryFromU64(Sub64(relative_to, label_location)))
    IN  BytesOpt(offset, 1)

\* Rel32 measured from the start of the operand instead of its end
resolve_Rel32_from_start(own_location, label_location) ==
    LET offset == IF Gt64(label_location, own_location)
                  THEN I32TryFromU64(Sub64(label_location, own_location))
                  ELSE NegOpt(I32TryFromU64(Sub64(own_location, label_location)))
    IN  BytesOpt(offset, 4)

\* resolve, Self::Rel32
resolve_Rel32(own_location, label_location) ==
    LET relative_to == Add64(own_location, U64(4))
        offset == IF Gt64(label_location, relative_to)
                  THEN I32TryFromU64(Sub64(label_location, relative_to))
                  ELSE NegOpt(I32TryFromU64(Sub64(relative_to, label_location)))
    IN  BytesOpt(offset, 4)

\* Abs32 that truncates without checking the sign extension
resolve_Abs32_unchecked(label_location) ==
    Some(SubSeq(Bytes64(label_location), 1, 4))

\* resolve, Self::Abs32
resolve_Abs32(label_location) ==
    LET location == AsI64(label_location)
        truncated_location == I32TryFromI64(location)
    IN  BytesOpt(truncated_location, 4)

\* resolve, Self::Abs64
resolve_Abs64(label_location) == Some(Bytes64(label_location))

\* ReferenceFormat::resolve
resolve(format, own_location, label_location) ==
    CASE format = "Rel8"  -> resolve_Rel8(own_location, label_location)
      [] format = "Rel32" -> resolve_Rel32(own_location, label_location)
      [] format = "Abs32" -> resolve_Abs32(label_location)
      [] format = "Abs64" -> resolve_Abs64(label_location)

-----------------------------------------------------------------------------
(* math.rs *)

\* rounding down instead of up
align_up_floor(x, y) ==
    IF x = Zero64 THEN Zero64
    ELSE Mul64(Div64(x, y), y)

\* align_up(x: u64, y: u64)
align_up(x, y) ==
    IF x = Zero64 THEN Zero64
    ELSE Mul64(Add64(One64, Div64(Sub64(x, One64), y)), y)

-----------------------------------------------------------------------------
(* link.rs: Segment.  A HashMap is a function whose domain is its key set. *)

EmptyMap == [k \in {} |-> 0]

\* HashMap::insert: the new value replaces an old one
Insert(map, k, v) == [x \in DOMAIN map \cup {k} |-> IF x = k THEN v ELSE map[x]]

\* Segment::new
Segment_new ==
    [alignment |-> 1, data |-> << >>, labels |-> EmptyMap, references |-> EmptyMap]

\* Segment::position
position(segment) == Len(segment.data)

\* Segment::offset_label; the assert fails when the name was already bound
offset_label_unique(segment, label) == label \notin DOMAIN segment.labels

\* offset_label that binds the position itself
offset_label_at_position(segment, offset, label) ==
    [segment EXCEPT !.labels = Insert(@, label, Len(segment.data))]

offset_label(segment, offset, label) ==
    [segment EXCEPT !.labels = Insert(@, label, Len(segment.data) + offset)]

\* Segment::label
label(segment, name) == offset_label(segment, 0, name)

\* Segment::extend
extend(segment, bytes) == [segment EXCEPT !.data = @ \o bytes]

\* Segment::absolute_reference: entry(label).or_insert(Vec::new()).push(..)
absolute_reference(segment, location, name, format) ==
    LET old == IF name \in DOMAIN segment.references
               THEN segment.references[name] ELSE << >>
    IN  [segment EXCEPT !.references =
            Insert(@, name, Append(old, [location |-> location, format |-> format]))]

\* offset_reference that records the position itself
offset_reference_at_position(segment, offset, name, format) ==
    absolute_reference(segment, Len(segment.data), name, format)

\* Segment::offset_reference
offset_reference(segment, offset, name, format) ==
    absolute_reference(segment, Len(segment.data) + offset, name, format)

\* Segment::reference
reference(segment, name, format) == offset_reference(segment, 0, name, format)

\* append_reference without the padding bytes
append_reference_unpadded(segment, name, format) ==
    reference(segment, name, format)

\* Segment::append_reference
append_reference(segment, name, format) ==
    extend(reference(segment, name, format), [k \in 1..len(format) |-> 0])

\* Segment::label_location
label_location(segment, name) ==
    IF name \in DOMAIN segment.labels THEN Some(segment.labels[name]) ELSE None

-----------------------------------------------------------------------------
(* elf64.rs: the records the linker emits, as bytemuck::bytes_of lays them out *)

FILE_HEADER_SIZE == 64
PROGRAM_HEADER_SIZE == 56
SECTION_HEADER_SIZE == 64
PT_LOAD == 1
PF_X == 1
PF_W == 2
PF_R == 4
ELFCLASS64 == 2
ELFDATA2LSB == 1
EV_CURRENT == 1
ELFOSABI_STANDALONE == 255
ET_NONE == 0
EM_NONE == 0
EM_X86_64 == 62

\* little-endian bytes of a Half (u16) and of a Word (u32)
HalfBytes(v) == <<v % 256, v \div 256>>

WordBytes(v) == <<v % 256, (v \div 256) % 256, (v \div 65536) % 256, v \div 16777216>>

\* FileHeader::new
FileHeader_new ==
    [e_ident     |-> <<127, 69, 76, 70, ELFCLASS64, ELFDATA2LSB, EV_CURRENT,
                       ELFOSABI_STANDALONE, 0, 0, 0, 0, 0, 0, 0, 0>>,
     e_type      |-> ET_NONE,
     e_machine   |-> EM_NONE,
     e_version   |-> EV_CURRENT,
     e_entry     |-> Zero64,
     e_phoff     |-> Zero64,
     e_shoff     |-> Zero64,
     e_flags     |-> 0,
     e_ehsize    |-> FILE_HEADER_SIZE,
     e_phentsize |-> PROGRAM_HEADER_SIZE,
     e_phnum     |-> 0,
     e_shentsize |-> SECTION_HEADER_SIZE,
     e_shnum     |-> 0,
     e_shstrndx  |-> 0]

\* bytes_of(&FileHeader): the #[repr(C)] fields in declaration order
FileHeaderBytes(h) ==
    h.e_ident \o HalfBytes(h.e_type) \o HalfBytes(h.e_machine) \o WordBytes(h.e_version)
    \o Bytes64(h.e_entry) \o Bytes64(h.e_phoff) \o Bytes64(h.e_shoff)
    \o WordBytes(h.e_flags) \o HalfBytes(h.e_ehsize) \o HalfBytes(h.e_phentsize)
    \o HalfBytes(h.e_phnum) \o HalfBytes(h.e_shentsize) \o HalfBytes(h.e_shnum)
    \o HalfBytes(h.e_shstrndx)

\* bytes_of(&Phdr)
PhdrBytes(h) ==
    WordBytes(h.p_type) \o WordBytes(h.p_flags) \o Bytes64(h.p_offset)
    \o Bytes64(h.p_vaddr) \o Bytes64(h.p_paddr) \o Bytes64(h.p_filesz)
    \o Bytes64(h.p_memsz) \o Bytes64(h.p_align)

-----------------------------------------------------------------------------
(* link.rs: ElfLinker *)

\* let start_vaddr = 0xffffffff_80000000_u64
start_vaddr == <<65535, 65535, 32768, 0>>

\* a u64 known to be small, as a natural (`as usize`)
AsUsize(u) == u[3] * Limb + u[4]

\* ElfLinker::add_segment: the header pushed for the segment
new_program_header(flags, align, segment) ==
    [p_type   |-> PT_LOAD,
     p_flags  |-> flags,
     p_offset |-> Zero64,
     p_vaddr  |-> Zero64,
     p_paddr  |-> Zero64,
     p_filesz |-> U64(Len(segment.data)),
     p_memsz  |-> U64(Len(segment.data)),
     p_align  |-> align]

\* the headers counted with the size of a section header
program_header_end_sections(n) ==
    Add64(U64(FILE_HEADER_SIZE), Mul64(U64(n), U64(SECTION_HEADER_SIZE)))

\* finish: program_header_end for n headers
program_header_end(n) ==
    Add64(U64(FILE_HEADER_SIZE), Mul64(U64(n), U64(PROGRAM_HEADER_SIZE)))

\* the running address rounded up to the next multiple of p_align
next_page_aligned(current_vaddr, p_align) == align_up(current_vaddr, p_align)

\* finish: if (current_vaddr % header.p_align) != 0 { current_vaddr += header.p_align; }
next_page(current_vaddr, p_align) ==
    IF Mod64(current_vaddr, p_align) # Zero64
    THEN Add64(current_vaddr, p_align)
    ELSE current_vaddr

\* finish: header.p_offset, header.p_vaddr and header.p_paddr are assigned
place_header(header, current_file_offset, current_vaddr) ==
    [header EXCEPT !.p_offset = current_file_offset,
                   !.p_vaddr = current_vaddr,
                   !.p_paddr = current_vaddr]

\* finish, step 2 of the layout loop: labels.insert for every label of the
\* segment; the assert fails when an insert finds a previous entry
merge_labels(tbl, header, segment) ==
    [n \in DOMAIN tbl \cup DOMAIN segment.labels |->
        IF n \in DOMAIN segment.labels
        THEN Add64(header.p_vaddr, U64(segment.labels[n]))
        ELSE tbl[n]]

\* finish: the layout loop from segment i on.  layout_place places segment i at
\* vaddr, layout_merge enters its labels and moves on to segment i + 1.
RECURSIVE layout(_, _, _, _, _, _)
RECURSIVE layout_place(_, _, _, _, _, _)
RECURSIVE layout_merge(_, _, _, _, _, _)
\* the layout loop without the assert: a later definition replaces the earlier
layout_merge_overwrite(i, headers, segs, current_file_offset, vaddr, tbl) ==
    layout(i + 1, headers, segs,
           Add64(current_file_offset, U64(Len(segs[i].data))),
           Add64(vaddr, U64(Len(segs[i].data))),
           merge_labels(tbl, headers[i], segs[i]))

layout(i, headers, segs, current_file_offset, current_vaddr, tbl) ==
    IF i > Len(headers)
    THEN [panic |-> "none", headers |-> headers, labels |-> tbl]
    ELSE layout_place(i, headers, segs, current_file_offset,
                      next_page(current_vaddr, headers[i].p_align), tbl)

layout_place(i, headers, segs, current_file_offset, vaddr, tbl) ==
    layout_merge(i, [headers EXCEPT ![i] = place_header(@, current_file_offset, vaddr)],
                 segs, current_file_offset, vaddr, tbl)

layout_merge(i, headers, segs, current_file_offset, vaddr, tbl) ==
    IF DOMAIN segs[i].labels \cap DOMAIN tbl # {}
    THEN [panic |-> "DuplicateLabel", headers |-> headers, labels |-> tbl]
    ELSE layout(i + 1, headers, segs,
                Add64(current_file_offset, U64(Len(segs[i].data))),
                Add64(vaddr, U64(Len(segs[i].data))),
                merge_labels(tbl, headers[i], segs[i]))

\* the destination taken one byte too far into the data
copy_from_slice_shifted(data, location, src) ==
    [k \in 1..Len(data) |->
        IF k > location + 1 /\ k <= location + 1 + Len(src)
        THEN src[k - location - 1] ELSE data[k]]

\* dest[..src.len()].copy_from_slice(src) at data[location..]
copy_from_slice(data, location, src) ==
    [k \in 1..Len(data) |->
        IF k > location /\ k <= location + Len(src) THEN src[k - location] ELSE data[k]]

\* finish: the resolved value is written into the segment's data
write_reference(data, ref, reference_value) ==
    IF ~reference_value.some
    THEN [panic |-> "RelativeOverflow", data |-> data]
    ELSE IF ref.location + Len(reference_value.val) > Len(data)
    THEN [panic |-> "SliceOutOfBounds", data |-> data]
    ELSE [panic |-> "none",
          data |-> copy_from_slice(data, ref.location, reference_value.val)]

\* the reference located from the start of its segment, not by its address
apply_reference_segment_relative(data, header, ref, target) ==
    write_reference(data, ref, resolve(ref.format, U64(ref.location), target))

\* finish: one reference is resolved and written
apply_reference(data, header, ref, target) ==
    write_reference(data, ref,
        resolve(ref.format, Add64(header.p_vaddr, U64(ref.location)), target))

\* finish: `for reference in references`, from the j-th on
RECURSIVE apply_references(_, _, _, _, _)
RECURSIVE apply_next(_, _, _, _, _)
apply_references(data, header, refs, target, j) ==
    IF j > Len(refs) THEN [panic |-> "none", data |-> data]
    ELSE apply_next(apply_reference(data, header, refs[j], target), header, refs, target, j)

apply_next(r, header, refs, target, j) ==
    IF r.panic # "none" THEN r
    ELSE apply_references(r.data, header, refs, target, j + 1)

\* finish: `for (label, references) in &segment.references`, the keys in the
\* order the HashMap yields them, from the k-th on
RECURSIVE resolve_segment(_, _, _, _, _, _)
RECURSIVE resolve_next(_, _, _, _, _, _)
\* the reference loop that passes over a name missing from the table
resolve_segment_skip(data, header, references, tbl, order, k) ==
    IF k > Len(order) THEN [panic |-> "none", data |-> data]
    ELSE IF order[k] \notin DOMAIN tbl
    THEN resolve_segment(data, header, references, tbl, order, k + 1)
    ELSE resolve_next(apply_references(data, header, references[order[k]], tbl[order[k]], 1),
                      header, references, tbl, order, k)

resolve_segment(data, header, references, tbl, order, k) ==
    IF k > Len(order) THEN [panic |-> "none", data |-> data]
    ELSE IF order[k] \notin DOMAIN tbl
    THEN [panic |-> "UndefinedLabel", data |-> data]
    ELSE resolve_next(apply_references(data, header, references[order[k]], tbl[order[k]], 1),
                      header, references, tbl, order, k)

resolve_next(r, header, references, tbl, order, k) ==
    IF r.panic # "none" THEN r
    ELSE resolve_segment(r.data, header, references, tbl, order, k + 1)

\* finish: the reference loop over all segments, from segment i on
RECURSIVE resolve_all(_, _, _, _, _)
RECURSIVE resolve_all_next(_, _, _, _, _, _)
resolve_all(i, headers, segs, tbl, orders) ==
    IF i > Len(segs) THEN [panic |-> "none", segments |-> segs]
    ELSE resolve_all_next(resolve_segment(segs[i].data, headers[i], segs[i].references,
                                          tbl, orders[i], 1),
                          i, headers, segs, tbl, orders)

resolve_all_next(r, i, headers, segs, tbl, orders) ==
    IF r.panic # "none" THEN [panic |-> r.panic, segments |-> segs]
    ELSE resolve_all(i + 1, headers, [segs EXCEPT ![i].data = r.data], tbl, orders)

\* the file header with e_phoff left as FileHeader::new set it
make_file_header_no_phoff(entry, phnum) ==
    [FileHeader_new EXCEPT !.e_machine = EM_X86_64,
                           !.e_entry = entry,
                           !.e_phnum = phnum]

\* the file header with e_entry left as FileHeader::new set it
make_file_header_no_entry(entry, phnum) ==
    [FileHeader_new EXCEPT !.e_machine = EM_X86_64,
                           !.e_phnum = phnum,
                           !.e_phoff = U64(FILE_HEADER_SIZE)]

\* finish: the file header
make_file_header(entry, phnum) ==
    [FileHeader_new EXCEPT !.e_machine = EM_X86_64,
                           !.e_entry = entry,
                           !.e_phnum = phnum,
                           !.e_phoff = U64(FILE_HEADER_SIZE)]

\* concatenation of f[1], .., f[n]
RECURSIVE Concat(_, _)
Concat(f, n) == IF n = 0 THEN << >> ELSE Concat(f, n - 1) \o f[n]

\* the image without the padding between the headers and the first segment
emit_unpadded(file_header, headers, data_padding, segs) ==
    FileHeaderBytes(file_header)
    \o Concat([i \in 1..Len(headers) |-> PhdrBytes(headers[i])], Len(headers))
    \o Concat([i \in 1..Len(segs) |-> segs[i].data], Len(segs))

\* finish: linked_bytes
emit(file_header, headers, data_padding, segs) ==
    FileHeaderBytes(file_header)
    \o Concat([i \in 1..Len(headers) |-> PhdrBytes(headers[i])], Len(headers))
    \o [k \in 1..data_padding |-> 0]
    \o Concat([i \in 1..Len(segs) |-> segs[i].data], Len(segs))

\* finish aborts: nothing is returned
finish_panic(kind, headers, segs) ==
    [panic |-> kind, headers |-> headers, segments |-> segs,
     labels |-> EmptyMap, linked |-> None]

\* finish, after the reference loop: the file header and the image
finish_emit(headers, segs, data_padding, laid, fixed) ==
    IF fixed.panic # "none" THEN finish_panic(fixed.panic, headers, segs)
    ELSE IF "entry" \notin DOMAIN laid.labels THEN finish_panic("MissingEntry", headers, segs)
    ELSE [panic |-> "none", headers |-> laid.headers, segments |-> fixed.segments,
          labels |-> laid.labels,
          linked |-> Some([bytes |->
              emit(make_file_header(laid.labels["entry"], Len(headers)),
                   laid.headers, AsUsize(data_padding), fixed.segments)])]

\* finish, after the layout loop: the reference loop
finish_resolve(headers, segs, orders, data_padding, laid) ==
    IF laid.panic # "none" THEN finish_panic(laid.panic, headers, segs)
    ELSE finish_emit(headers, segs, data_padding, laid,
                     resolve_all(1, laid.headers, segs, laid.labels, orders))

\* finish, from current_file_offset on
finish_layout(headers, segs, orders, end, current_file_offset) ==
    finish_resolve(headers, segs, orders, Sub64(current_file_offset, end),
                   layout(1, headers, segs, current_file_offset,
                          align_up(start_vaddr, headers[1].p_align), EmptyMap))

\* ElfLinker::finish; orders[i] is the order in which segment i's reference map
\* is iterated
finish(headers, segs, orders) ==
    IF Len(headers) = 0
    THEN finish_panic("IndexOutOfBounds", headers, segs)
    ELSE finish_layout(headers, segs, orders, program_header_end(Len(headers)),
                       align_up(program_header_end(Len(headers)), headers[1].p_align))

-----
(* The linker's clients: what is passed to add_segment *)

\* at most this many segments are added before finish
MaxSegments == 2

\* n bytes first, first + 1, ..
Block(first, n) == [k \in 1..n |-> first + k - 1]

\* 16 bytes of data, no label: data.append(&[..; 16])
DataSegment == extend(Segment_new, Block(16, 16))

\* 32 bytes of code, "entry" bound to offset 0
CodeSegment == extend(extend(label(Segment_new, "entry"), Block(32, 16)), Block(48, 16))

\* jmp entry; x: jmp x; jmp short x
JumpSegment ==
    LET s1 == append_reference(extend(Segment_new, <<233>>), "entry", "Rel32")
        s2 == append_reference(extend(label(s1, "x"), <<233>>), "x", "Rel32")
    IN  append_reference(extend(s2, <<235>>), "x", "Rel8")

\* .quad entry; .long entry; jmp short entry
VectorSegment ==
    LET s1 == append_reference(Segment_new, "entry", "Abs64")
        s2 == append_reference(s1, "entry", "Abs32")
    IN  append_reference(extend(s2, <<235>>), "entry", "Rel8")

\* .quad x; jmp short entry
TableSegment ==
    append_reference(extend(append_reference(Segment_new, "x", "Abs64"), <<235>>),
                     "entry", "Rel8")

\* the (flags, segment) pairs a client passes
SegmentInputs ==
    { [flags |-> PF_R + PF_W, segment |-> DataSegment],
      [flags |-> PF_R + PF_X, segment |-> CodeSegment],
      [flags |-> PF_R + PF_X, segment |-> JumpSegment],
      [flags |-> PF_R,        segment |-> VectorSegment],
      [flags |-> PF_R,        segment |-> TableSegment] }

\* the alignments a client passes (Phdr::p_align: "Must be a power of two")
AlignSet == {U64(16), U64(4096)}

\* every order in which a HashMap with key set S may be iterated
KeyOrders(S) ==
    {o \in [1..Cardinality(S) -> S] : \A i, j \in 1..Cardinality(S) : o[i] = o[j] => i = j}

\* one iteration order for the reference map of each segment
IterationOrders(segs) ==
    {o \in [1..Len(segs) -> UNION {KeyOrders(DOMAIN segs[i].references) : i \in 1..Len(segs)}] :
        \A i \in 1..Len(segs) : o[i] \in KeyOrders(DOMAIN segs[i].references)}

-----------------------------------------------------------------------------
(* The linker as a state machine *)

Init ==
    /\ segment_headers = << >>
    /\ segments = << >>
    /\ linked = None
    /\ panic = "none"
    /\ labels = EmptyMap
    /\ pc = "building"
    /\ call = Idle
    /\ ret = Idle
    /\ seg = Idle
    /\ asm = Idle
    /\ history = << >>

\* ElfLinker::add_segment
add_segment(flags, align, segment) ==
    /\ pc = "building"
    /\ Len(segments) < MaxSegments
    /\ segment_headers' = Append(segment_headers, new_program_header(flags, align, segment))
    /\ segments' = Append(segments, segment)
    /\ UNCHANGED <<linked, panic, labels, pc, call, ret, seg, asm, history>>

\* ElfLinker::finish returns r: the linker is consumed; on success the headers
\* and the segments are left as the image was built from them, on a panic as
\* they were added
finish_returns(r) ==
    /\ segment_headers' = r.headers
    /\ segments' = r.segments
    /\ labels' = r.labels
    /\ linked' = r.linked
    /\ panic' = r.panic
    /\ pc' = "done"
    /\ UNCHANGED <<call, ret, seg, asm, history>>

Finish ==
    /\ pc = "building"
    /\ \E orders \in IterationOrders(segments) :
          finish_returns(finish(segment_headers, segments, orders))

AddSegment ==
    \E input \in SegmentInputs, align \in AlignSet :
        add_segment(input.flags, align, input.segment)

Next == AddSegment \/ Finish

Spec == Init /\ [][Next]_vars

-----------------------------------------------------------------------------
(* ReferenceFormat::resolve called on its own *)

\* displacements up to this distance from 0 are tried for Rel8
MaxDisp8 == 130

\* addresses up to this distance from a 32-bit or 64-bit boundary are tried
MaxEdge == 2

\* a moved by the signed distance d, modulo 2^64
Shift64(a, d) == IF d >= 0 THEN Add64(a, U64(d)) ELSE Sub64(a, U64(-d))

\* 2^31, 2^32 and 2^63 as u64
Pow31 == <<0, 0, 32768, 0>>

Pow32 == <<0, 1, 0, 0>>

Pow63 == <<32768, 0, 0, 0>>

\* the reference locations tried
OwnLocations == {U64(300), Pow32, Add64(start_vaddr, U64(4102))}

Rel8Calls ==
    { [format |-> "Rel8", own_location |-> o,
       label_location |-> Shift64(Add64(o, U64(1)), d)] :
         o \in OwnLocations, d \in (-MaxDisp8)..MaxDisp8 }

Rel32Calls ==
    { [format |-> "Rel32", own_location |-> o,
       label_location |-> Shift64(Add64(Add64(o, U64(4)), p), e)] :
         o \in OwnLocations, p \in {Zero64, Pow31, Sub64(Zero64, Pow31)},
         e \in (-MaxEdge)..MaxEdge }

AbsCalls ==
    { [format |-> f, own_location |-> Zero64, label_location |-> Shift64(p, e)] :
         f \in {"Abs32", "Abs64"},
         p \in {Zero64, Pow31, Pow32, Pow63, Sub64(Zero64, Pow31)},
         e \in (-MaxEdge)..MaxEdge }

ResolveCalls == Rel8Calls \cup Rel32Calls \cup AbsCalls

InitResolve ==
    /\ segment_headers = << >>
    /\ segments = << >>
    /\ linked = None
    /\ panic = "none"
    /\ labels = EmptyMap
    /\ pc = "call"
    /\ call \in ResolveCalls
    /\ ret = Pending
    /\ seg = Idle
    /\ asm = Idle
    /\ history = << >>

\* reference.format.resolve(reference_location, label_location)
CallResolve ==
    /\ pc = "call"
    /\ ret = Pending
    /\ ret' = resolve(call.format, call.own_location, call.label_location)
    /\ pc' = "returned"
    /\ UNCHANGED <<segment_headers, segments, linked, panic, labels, call, seg, asm, history>>

NextResolve == CallResolve

SpecResolve == InitResolve /\ [][NextResolve]_vars

-----------------------------------------------------------------------------
(* Properties of ReferenceFormat::resolve, stated on the arguments and the
   result of a call *)

\* the displacement T - (L + n) of a relative reference of n bytes, as a sign
\* and a magnitude
Displacement(own_location, n, target) ==
    IF Le64(Add64(own_location, U64(n)), target)
    THEN [neg |-> FALSE, mag |-> Sub64(target, Add64(own_location, U64(n)))]
    ELSE [neg |-> TRUE, mag |-> Sub64(Add64(own_location, U64(n)), target)]

\* d lies in -128..127
FitsSigned8(d) == IF d.neg THEN Le64(d.mag, U64(128)) ELSE Le64(d.mag, U64(127))

\* d lies in -2^31..2^31-1
FitsSigned32(d) == IF d.neg THEN Le64(d.mag, Pow31) ELSE Lt64(d.mag, Pow31)

FitsSigned(format, d) == IF format = "Rel8" THEN FitsSigned8(d) ELSE FitsSigned32(d)

\* byte k (1 the least significant) of a u64
ByteAt(a, k) == (a[4 - ((k - 1) \div 2)] \div (256 ^ ((k - 1) % 2))) % 256

\* the n low bytes of a, least significant first: a two's complement value of
\* n bytes when a is the difference modulo 2^64
LowBytes(a, n) == [k \in 1..n |-> ByteAt(a, k)]

\* C2: a Rel8 (Rel32) reference resolves to the displacement T - (L + 1)
\* (T - (L + 4)) as a signed byte (a signed 32-bit word, little-endian) for every
\* displacement of the full signed range, both ends included, and fails exactly
\* for the displacements outside that range.
C2_RelativeFullRange ==
    (pc = "returned" /\ call.format \in {"Rel8", "Rel32"}) =>
        IF FitsSigned(call.format,
                      Displacement(call.own_location, len(call.format), call.label_location))
        THEN ret = Some(LowBytes(Sub64(call.label_location,
                                       Add64(call.own_location, U64(len(call.format)))),
                                 len(call.format)))
        ELSE ret = None

\* the bits 31..63 of a are all equal: a, read as a signed 64-bit value, fits a
\* signed 32-bit value
Top33BitsEqual(a) == \A i \in 31..63 : Bit64(a, i) = Bit64(a, 63)

\* C3: an Abs32 reference resolves exactly when the top 33 bits of the target
\* are all zero or all one, to the four low bytes of the target, and fails for
\* every other target; an Abs64 reference always resolves, to the eight bytes of
\* the target.
C3_AbsoluteFits ==
    /\ (pc = "returned" /\ call.format = "Abs32") =>
          IF Top33BitsEqual(call.label_location)
          THEN ret = Some(LowBytes(call.label_location, 4))
          ELSE ret = None
    /\ (pc = "returned" /\ call.format = "Abs64") =>
          ret = Some(LowBytes(call.label_location, 8))

\* an Abs32 reference to 0xffffffff_80000000, the lowest address that fits, has
\* been resolved
C3_Witness ==
    /\ pc = "returned"
    /\ call.format = "Abs32"
    /\ call.label_location = start_vaddr
    /\ ret = Some(<<0, 0, 0, 128>>)

-----------------------------------------------------------------------------
(* Properties of ElfLinker::finish, stated on the linker after finish returned *)

\* finish returned an image
Succeeded == pc = "done" /\ panic = "none"

\* the u64 stored little-endian at byte offset off of the image
ImageU64(bytes, off) == FromBytes64(SubSeq(bytes, off + 1, off + 8))

\* the address right after segment i: its p_vaddr plus its data length
SegmentEnd(i) == Add64(segment_headers[i].p_vaddr, U64(Len(segments[i].data)))

\* C1: after finish succeeds, the four bytes at L of every Rel32 reference at
\* segment-local location L, in a segment placed at V, naming a label of global
\* address T, are the little-endian signed 32-bit value T - (V + L + 4).
C1_Rel32Bytes ==
    Succeeded =>
        \A i \in 1..Len(segments) :
            \A name \in DOMAIN segments[i].references :
                \A j \in 1..Len(segments[i].references[name]) :
                    segments[i].references[name][j].format = "Rel32" =>
                        SubSeq(segments[i].data,
                               segments[i].references[name][j].location + 1,
                               segments[i].references[name][j].location + 4)
                        = LowBytes(Sub64(labels[name],
                                         Add64(segment_headers[i].p_vaddr,
                                               U64(segments[i].references[name][j].location + 4))),
                                   4)

\* finish succeeded with a Rel32 reference to a label of another segment
C1_Witness ==
    /\ Succeeded
    /\ \E i \in 1..Len(segments) :
          \E name \in DOMAIN segments[i].references :
              /\ name \notin DOMAIN segments[i].labels
              /\ \E j \in 1..Len(segments[i].references[name]) :
                    segments[i].references[name][j].format = "Rel32"

\* C4 as claimed: after layout every segment's p_vaddr is a multiple of its
\* p_align.
C4_VaddrAligned ==
    Succeeded =>
        \A i \in 1..Len(segment_headers) :
            Mod64(segment_headers[i].p_vaddr, segment_headers[i].p_align) = Zero64

\* C4, amended: the first segment's p_vaddr is a multiple of its p_align; a
\* later segment is placed at the running virtual address (the end of the
\* segment before it) when that is a multiple of its p_align, and otherwise
\* exactly p_align above the running address, which is then no multiple of
\* p_align.
C4_VaddrNextPage ==
    Succeeded =>
        /\ Mod64(segment_headers[1].p_vaddr, segment_headers[1].p_align) = Zero64
        /\ \A i \in 2..Len(segment_headers) :
              IF Mod64(SegmentEnd(i - 1), segment_headers[i].p_align) = Zero64
              THEN segment_headers[i].p_vaddr = SegmentEnd(i - 1)
              ELSE /\ segment_headers[i].p_vaddr
                        = Add64(SegmentEnd(i - 1), segment_headers[i].p_align)
                   /\ Mod64(segment_headers[i].p_vaddr, segment_headers[i].p_align) # Zero64

\* finish succeeded with a second segment whose p_vaddr was pushed forward
C4_Witness ==
    /\ Succeeded
    /\ Len(segment_headers) >= 2
    /\ segment_headers[2].p_vaddr # SegmentEnd(1)

\* the linker was given scenario S7: 16 bytes of data aligned 0x1000, then 32
\* bytes of code aligned 0x1000 with "entry" at code offset 0; finish returned
ScenarioS7 ==
    /\ pc = "done"
    /\ Len(segments) = 2
    /\ segments[1] = DataSegment
    /\ segments[2] = CodeSegment
    /\ segment_headers[1].p_align = U64(4096)
    /\ segment_headers[2].p_align = U64(4096)

\* the p_offset and p_vaddr of both program headers and e_entry, in the linker's
\* headers and in the image
LayoutIs(offset1, offset2, vaddr1, vaddr2, entry) ==
    /\ Succeeded
    /\ segment_headers[1].p_offset = offset1
    /\ segment_headers[2].p_offset = offset2
    /\ segment_headers[1].p_vaddr = vaddr1
    /\ segment_headers[2].p_vaddr = vaddr2
    /\ ImageU64(linked.val.bytes, FILE_HEADER_SIZE + 8) = offset1
    /\ ImageU64(linked.val.bytes, FILE_HEADER_SIZE + PROGRAM_HEADER_SIZE + 8) = offset2
    /\ ImageU64(linked.val.bytes, FILE_HEADER_SIZE + 16) = vaddr1
    /\ ImageU64(linked.val.bytes, FILE_HEADER_SIZE + PROGRAM_HEADER_SIZE + 16) = vaddr2
    /\ ImageU64(linked.val.bytes, 24) = entry

\* C5 as claimed: scenario S7 yields p_offset 0x1000 and 0x2000, p_vaddr base and
\* base + 0x1000, and e_entry = base + 0x1000.
C5_ScenarioS7 ==
    ScenarioS7 =>
        LayoutIs(U64(4096), U64(8192), start_vaddr, Add64(start_vaddr, U64(4096)),
                 Add64(start_vaddr, U64(4096)))

\* C5, amended: scenario S7 yields p_offset 0x1000 and 0x1010, p_vaddr base and
\* base + 0x1010, and e_entry = base + 0x1010.
C5_ScenarioS7NextPage ==
    ScenarioS7 =>
        LayoutIs(U64(4096), U64(4112), start_vaddr, Add64(start_vaddr, U64(4112)),
                 Add64(start_vaddr, U64(4112)))

\* scenario S7 was linked and an image of 0x1000 + 16 + 32 bytes returned
C5_Witness == ScenarioS7 /\ Succeeded /\ Len(linked.val.bytes) = 4144

\* C6: after finish every program header satisfies the congruence
\* p_offset mod p_align = p_vaddr mod p_align.
C6_OffsetVaddrCongruent ==
    Succeeded =>
        \A i \in 1..Len(segment_headers) :
            Mod64(segment_headers[i].p_offset, segment_headers[i].p_align)
            = Mod64(segment_headers[i].p_vaddr, segment_headers[i].p_align)

\* r is the least multiple of a that is at least x
IsAlignedUp(r, x, a) ==
    /\ Mod64(r, a) = Zero64
    /\ Le64(x, r)
    /\ Lt64(Sub64(r, x), a)

\* C7: with N segments the first p_offset is 64 + 56 * N aligned up to the first
\* segment's p_align, and every later p_offset is the p_offset before it plus
\* the data length of the segment before it: the file has no padding between
\* segments, also where the virtual address is pushed forward.
C7_FileOffsets ==
    Succeeded =>
        /\ IsAlignedUp(segment_headers[1].p_offset, U64(64 + 56 * Len(segment_headers)),
                       segment_headers[1].p_align)
        /\ \A i \in 2..Len(segment_headers) :
              segment_headers[i].p_offset
              = Add64(segment_headers[i - 1].p_offset, U64(Len(segments[i - 1].data)))

\* finish succeeded with a second segment whose virtual address was pushed
\* forward and whose file offset follows the first segment's data directly
C7_Witness ==
    /\ Succeeded
    /\ Len(segment_headers) >= 2
    /\ segment_headers[2].p_vaddr # SegmentEnd(1)
    /\ segment_headers[2].p_offset
       = Add64(segment_headers[1].p_offset, U64(Len(segments[1].data)))

\* program header i as the image holds it: the fields at their offsets in the
\* 56 bytes that start at 64 + 56 * (i - 1)
ImagePhdr(bytes, i) ==
    [p_type   |-> SubSeq(bytes, 56 * i + 9, 56 * i + 12),
     p_flags  |-> SubSeq(bytes, 56 * i + 13, 56 * i + 16),
     p_offset |-> ImageU64(bytes, 56 * i + 16),
     p_vaddr  |-> ImageU64(bytes, 56 * i + 24),
     p_paddr  |-> ImageU64(bytes, 56 * i + 32),
     p_filesz |-> ImageU64(bytes, 56 * i + 40),
     p_memsz  |-> ImageU64(bytes, 56 * i + 48),
     p_align  |-> ImageU64(bytes, 56 * i + 56)]

\* C8: the image is the 64-byte file header, the N program headers in
\* add_segment order, zero bytes up to the first p_offset, then every segment's
\* fixed-up data in add_segment order: the p_filesz bytes at p_offset are the
\* segment's data, and p_filesz = p_memsz = the data length.
C8_ImageLayout ==
    Succeeded =>
        /\ Len(linked.val.bytes)
           = AsUsize(segment_headers[Len(segment_headers)].p_offset)
             + Len(segments[Len(segments)].data)
        /\ SubSeq(linked.val.bytes, 1, 4) = <<127, 69, 76, 70>>
        /\ SubSeq(linked.val.bytes, 33, 40) = <<64, 0, 0, 0, 0, 0, 0, 0>>
        /\ SubSeq(linked.val.bytes, 57, 58) = <<Len(segment_headers), 0>>
        /\ \A i \in 1..Len(segment_headers) :
              /\ ImagePhdr(linked.val.bytes, i)
                 = [segment_headers[i] EXCEPT !.p_type = <<1, 0, 0, 0>>,
                                              !.p_flags = <<@, 0, 0, 0>>]
              /\ segment_headers[i].p_filesz = U64(Len(segments[i].data))
              /\ segment_headers[i].p_memsz = U64(Len(segments[i].data))
              /\ SubSeq(linked.val.bytes,
                        AsUsize(segment_headers[i].p_offset) + 1,
                        AsUsize(segment_headers[i].p_offset) + Len(segments[i].data))
                 = segments[i].data
        /\ \A k \in (64 + 56 * Len(segment_headers) + 1)..AsUsize(segment_headers[1].p_offset) :
              linked.val.bytes[k] = 0

\* an image with padding after the headers and a second segment whose data
\* holds resolved references
C8_Witness ==
    /\ Succeeded
    /\ Len(segments) = 2
    /\ AsUsize(segment_headers[1].p_offset) > 64 + 56 * 2
    /\ DOMAIN segments[2].references # {}

\* some name is a label of two different segments
DuplicateAcrossSegments ==
    \E i, j \in 1..Len(segments) :
        i # j /\ DOMAIN segments[i].labels \cap DOMAIN segments[j].labels # {}

\* C9: finish merges the labels of all segments into one table that maps each
\* label to its segment's p_vaddr plus its segment-local offset; when a name is
\* a label of two different segments finish fails with DuplicateLabel and
\* returns no image.
C9_LabelTable ==
    /\ Succeeded =>
          /\ DOMAIN labels = UNION {DOMAIN segments[i].labels : i \in 1..Len(segments)}
          /\ \A i \in 1..Len(segments) :
                \A name \in DOMAIN segments[i].labels :
                    labels[name]
                    = Add64(segment_headers[i].p_vaddr, U64(segments[i].labels[name]))
    /\ (pc = "done" /\ DuplicateAcrossSegments) =>
          (panic = "DuplicateLabel" /\ linked = None)

\* finish failed with DuplicateLabel on a name defined in two segments
C9_Witness ==
    /\ pc = "done"
    /\ DuplicateAcrossSegments
    /\ panic = "DuplicateLabel"
    /\ linked = None

\* some segment holds a reference to a name that no segment defines
UndefinedReference ==
    \E i \in 1..Len(segments) :
        \E name \in DOMAIN segments[i].references :
            \A j \in 1..Len(segments) : name \notin DOMAIN segments[j].labels

\* C10 as claimed: with a reference to a name defined in no segment finish
\* fails with UndefinedLabel and returns no image; with every referenced name
\* defined finish never fails with UndefinedLabel.
C10_UndefinedLabel ==
    /\ (pc = "done" /\ UndefinedReference) =>
          (panic = "UndefinedLabel" /\ linked = None)
    /\ (pc = "done" /\ ~UndefinedReference) => panic # "UndefinedLabel"

\* C10, amended: with a reference to a name defined in no segment finish fails
\* and returns no image; the failure is UndefinedLabel unless finish has
\* failed before it reaches that reference, with DuplicateLabel on a name
\* defined in two segments or with RelativeOverflow on a reference visited
\* earlier.  With every referenced name defined finish never fails with
\* UndefinedLabel.
C10_UndefinedFails ==
    /\ (pc = "done" /\ UndefinedReference) =>
          /\ panic # "none"
          /\ linked = None
          /\ \/ panic = "UndefinedLabel"
             \/ panic = "DuplicateLabel" /\ DuplicateAcrossSegments
             \/ panic = "RelativeOverflow"
    /\ (pc = "done" /\ ~UndefinedReference) => panic # "UndefinedLabel"

\* finish failed with UndefinedLabel on a reference to a name no segment defines
C10_Witness ==
    /\ pc = "done"
    /\ UndefinedReference
    /\ panic = "UndefinedLabel"
    /\ linked = None

\* some segment defines the label "entry"
EntryDefined ==
    \E i \in 1..Len(segments) : "entry" \in DOMAIN segments[i].labels

\* the file header of the image: e_entry is the address of "entry" (its
\* segment's p_vaddr plus its offset there), e_phoff = 64, e_shoff = 0,
\* e_phnum = the number of segments, e_shnum = 0
ImageFileHeader ==
    /\ \A i \in 1..Len(segments) :
          "entry" \in DOMAIN segments[i].labels =>
              ImageU64(linked.val.bytes, 24)
              = Add64(segment_headers[i].p_vaddr, U64(segments[i].labels["entry"]))
    /\ ImageU64(linked.val.bytes, 32) = U64(64)
    /\ ImageU64(linked.val.bytes, 40) = Zero64
    /\ SubSeq(linked.val.bytes, 57, 58) = <<Len(segments), 0>>
    /\ SubSeq(linked.val.bytes, 61, 62) = <<0, 0>>

\* C11 as claimed: when finish succeeds the file header has e_entry = the global
\* address of "entry", e_phnum = the number of segments, e_phoff = 64, e_shoff = 0
\* and e_shnum = 0; when no segment defines "entry" finish fails with
\* MissingEntry and returns no image.
C11_EntryHeader ==
    /\ Succeeded => (EntryDefined /\ ImageFileHeader)
    /\ (pc = "done" /\ ~EntryDefined) => (panic = "MissingEntry" /\ linked = None)

\* C11, amended: the file header is as claimed when finish succeeds; when no
\* segment defines "entry" finish fails and returns no image, with MissingEntry
\* unless an earlier step of finish has failed first: no segment was added
\* (IndexOutOfBounds), a name is defined in two segments (DuplicateLabel), a
\* referenced name is undefined (UndefinedLabel) or a reference does not
\* resolve (RelativeOverflow).
C11_EntryHeaderOrEarlierFailure ==
    /\ Succeeded => (EntryDefined /\ ImageFileHeader)
    /\ (pc = "done" /\ ~EntryDefined) =>
          /\ linked = None
          /\ \/ panic = "MissingEntry"
             \/ panic = "IndexOutOfBounds" /\ Len(segments) = 0
             \/ panic = "DuplicateLabel" /\ DuplicateAcrossSegments
             \/ panic = "UndefinedLabel" /\ UndefinedReference
             \/ panic = "RelativeOverflow"

\* finish failed with MissingEntry on segments none of which defines "entry"
C11_Witness ==
    /\ pc = "done"
    /\ Len(segments) >= 1
    /\ ~EntryDefined
    /\ panic = "MissingEntry"
    /\ linked = None

\* byte k (counted from 1) of segment s lies in the field of one of its
\* references: the len() bytes from the reference's location on
InReferenceField(s, k) ==
    \E name \in DOMAIN s.references :
        \E j \in 1..Len(s.references[name]) :
            /\ k > s.references[name][j].location
            /\ k <= s.references[name][j].location + len(s.references[name][j].format)

\* the bytes a reference of the format at location L of a segment placed at V
\* holds once resolved to the address T
ResolvedField(format, V, L, T) ==
    IF is_relative(format)
    THEN LowBytes(Sub64(T, Add64(V, U64(L + len(format)))), len(format))
    ELSE LowBytes(T, len(format))

\* C12: a successful finish writes, for each reference, exactly len() bytes
\* (Rel8 1, Rel32 4, Abs32 4, Abs64 8) from the reference's location on in the
\* owning segment's data; every byte outside all reference fields and every
\* segment's length is as it was when the segment was added.
C12_FixupFrame ==
    [][(pc = "building" /\ pc' = "done" /\ panic' = "none") =>
          /\ Len(segments') = Len(segments)
          /\ \A i \in 1..Len(segments) :
                /\ Len(segments'[i].data) = Len(segments[i].data)
                /\ \A k \in 1..Len(segments[i].data) :
                      ~InReferenceField(segments[i], k) =>
                          segments'[i].data[k] = segments[i].data[k]
                /\ \A name \in DOMAIN segments[i].references :
                      \A j \in 1..Len(segments[i].references[name]) :
                          SubSeq(segments'[i].data,
                                 segments[i].references[name][j].location + 1,
                                 segments[i].references[name][j].location
                                     + len(segments[i].references[name][j].format))
                          = ResolvedField(segments[i].references[name][j].format,
                                          segment_headers'[i].p_vaddr,
                                          segments[i].references[name][j].location,
                                          labels'[name])]_vars

\* finish succeeded on a segment that holds references of every width and
\* bytes outside their fields
C12_Witness ==
    /\ Succeeded
    /\ \E i \in 1..Len(segments) :
          /\ \E k \in 1..Len(segments[i].data) : ~InReferenceField(segments[i], k)
          /\ \A n \in {1, 4, 8} :
                \E name \in DOMAIN segments[i].references :
                    \E j \in 1..Len(segments[i].references[name]) :
                        len(segments[i].references[name][j].format) = n

-----------------------------------------------------------------------------
(* link.rs: a Segment built by calls of its methods *)

\* at most this many methods are called on the segment
MaxCalls == 3

\* usize::is_power_of_two
is_power_of_two(n) == n > 0 /\ \E k \in 0..30 : n = 2 ^ k

\* align that assigns the request
align_assign(segment, alignment) ==
    [segment EXCEPT !.alignment = alignment]

\* Segment::align, after its assert
align(segment, alignment) ==
    [segment EXCEPT !.alignment = IF @ >= alignment THEN @ ELSE alignment]

\* Segment::append: bytemuck::bytes_of of a byte array is the array
append(segment, val) == extend(segment, val)

\* the label names a client uses
NameInputs == {"a", "b"}

\* the arguments a client passes
LabelInputs == {[fn |-> "label", name |-> n] : n \in NameInputs}

OffsetLabelInputs == {[fn |-> "offset_label", offset |-> 2, name |-> n] : n \in NameInputs}

ExtendInputs == {[fn |-> "extend", bytes |-> <<144>>]}

AppendInputs == {[fn |-> "append", val |-> <<64, 0>>]}

AppendReferenceInputs ==
    {[fn |-> "append_reference", name |-> "a", format |-> f] : f \in ReferenceFormat}

ReferenceInputs ==
    { [fn |-> "reference", name |-> "b", format |-> "Rel8"],
      [fn |-> "reference", name |-> "a", format |-> "Abs64"] }

OffsetReferenceInputs ==
    {[fn |-> "offset_reference", offset |-> 1, name |-> "b", format |-> "Rel32"]}

AbsoluteReferenceInputs ==
    { [fn |-> "absolute_reference", location |-> 0, name |-> "a", format |-> "Abs32"],
      [fn |-> "absolute_reference", location |-> 3, name |-> "b", format |-> "Rel8"] }

AlignInputs == {[fn |-> "align", alignment |-> n] : n \in {0, 2, 3, 8}}

\* segment.data_mut()[at] = value: the byte is overwritten in place
data_mut(segment, at, value) == [segment EXCEPT !.data[at + 1] = value]

DataMutInputs == {[fn |-> "data_mut", at |-> 0, value |-> 111]}

\* let mut segment = Segment::new()
InitSegment ==
    /\ segment_headers = << >>
    /\ segments = << >>
    /\ linked = None
    /\ panic = "none"
    /\ labels = EmptyMap
    /\ pc = "segment"
    /\ call = Idle
    /\ ret = Idle
    /\ seg = Segment_new
    /\ asm = Idle
    /\ history = << >>

\* the method called as c returns with the segment as next
SegmentReturns(c, next) ==
    /\ pc = "segment"
    /\ Len(history) < MaxCalls
    /\ history' = Append(history, c)
    /\ seg' = next
    /\ UNCHANGED <<segment_headers, segments, linked, panic, labels, pc, call, ret, asm>>

\* an assert of the method called as c fails, the segment left as next
SegmentPanics(c, kind, next) ==
    /\ pc = "segment"
    /\ Len(history) < MaxCalls
    /\ history' = Append(history, c)
    /\ seg' = next
    /\ panic' = kind
    /\ pc' = "panicked"
    /\ UNCHANGED <<segment_headers, segments, linked, labels, call, ret, asm>>

\* segment.label(name): the name is inserted, then uniqueness is asserted
SegLabel ==
    \E c \in LabelInputs :
        IF offset_label_unique(seg, c.name)
        THEN SegmentReturns(c, label(seg, c.name))
        ELSE SegmentPanics(c, "DuplicateLabel", label(seg, c.name))

\* segment.offset_label(offset, name)
SegOffsetLabel ==
    \E c \in OffsetLabelInputs :
        IF offset_label_unique(seg, c.name)
        THEN SegmentReturns(c, offset_label(seg, c.offset, c.name))
        ELSE SegmentPanics(c, "DuplicateLabel", offset_label(seg, c.offset, c.name))

\* segment.extend(bytes)
SegExtend == \E c \in ExtendInputs : SegmentReturns(c, extend(seg, c.bytes))

\* segment.append(&val)
SegAppend == \E c \in AppendInputs : SegmentReturns(c, append(seg, c.val))

\* segment.append_reference(name, format)
SegAppendReference ==
    \E c \in AppendReferenceInputs :
        SegmentReturns(c, append_reference(seg, c.name, c.format))

\* segment.reference(name, format)
SegReference ==
    \E c \in ReferenceInputs : SegmentReturns(c, reference(seg, c.name, c.format))

\* segment.offset_reference(offset, name, format)
SegOffsetReference ==
    \E c \in OffsetReferenceInputs :
        SegmentReturns(c, offset_reference(seg, c.offset, c.name, c.format))

\* segment.absolute_reference(location, name, format)
SegAbsoluteReference ==
    \E c \in AbsoluteReferenceInputs :
        SegmentReturns(c, absolute_reference(seg, c.location, c.name, c.format))

\* segment.align(alignment): assert!(alignment.is_power_of_two()) comes first
SegAlign ==
    \E c \in AlignInputs :
        IF is_power_of_two(c.alignment)
        THEN SegmentReturns(c, align(seg, c.alignment))
        ELSE SegmentPanics(c, "AlignmentNotPowerOfTwo", seg)

\* segment.data_mut()[at] = value: indexing the slice past its end panics
SegDataMut ==
    \E c \in DataMutInputs :
        IF c.at < Len(seg.data)
        THEN SegmentReturns(c, data_mut(seg, c.at, c.value))
        ELSE SegmentPanics(c, "IndexOutOfBounds", seg)

NextSegment ==
    \/ SegLabel
    \/ SegOffsetLabel
    \/ SegExtend
    \/ SegAppend
    \/ SegAppendReference
    \/ SegReference
    \/ SegOffsetReference
    \/ SegAbsoluteReference
    \/ SegAlign
    \/ SegDataMut

SpecSegment == InitSegment /\ [][NextSegment]_vars

-----------------------------------------------------------------------------
(* Properties of a Segment under construction *)

\* the methods that record a location without appending its bytes
RawReferenceCalls == {"reference", "offset_reference", "absolute_reference"}

\* every recorded reference has its len() bytes inside the data
ReferencesInData(segment) ==
    \A n \in DOMAIN segment.references :
        \A k \in 1..Len(segment.references[n]) :
            segment.references[n][k].location + len(segment.references[n][k].format)
                <= Len(segment.data)

\* C13 as stated: after any sequence of Segment operations every recorded
\* reference satisfies location + format.len() <= the data length.
C13_ReferencesInData == pc \in {"segment", "panicked"} => ReferencesInData(seg)

\* C13: after any sequence of label, offset_label, append, extend,
\* append_reference and align (no reference, offset_reference or
\* absolute_reference among them) every recorded reference satisfies
\* location + format.len() <= the data length.
C13_AppendedReferencesInData ==
    (/\ pc \in {"segment", "panicked"}
     /\ \A i \in 1..Len(history) : history[i].fn \notin RawReferenceCalls)
        => ReferencesInData(seg)

C13_Witness ==
    /\ pc = "segment"
    /\ Len(history) = 3
    /\ history[1].fn = "append_reference" /\ history[1].format = "Abs64"
    /\ history[2].fn = "extend"
    /\ history[3].fn = "append_reference" /\ history[3].format = "Rel8"
    /\ seg.references["a"] = << [location |-> 0, format |-> "Abs64"],
                                [location |-> 9, format |-> "Rel8"] >>
    /\ Len(seg.data) = 10

\* the offset a label call adds to the position
LabelOffset(c) == IF c.fn = "label" THEN 0 ELSE c.offset

\* the step is a call of label or offset_label
IsLabelCall ==
    /\ pc = "segment"
    /\ Len(history') = Len(history) + 1
    /\ history'[Len(history')].fn \in {"label", "offset_label"}

\* what a call c of label or offset_label does to the segment
LabelCallEffect(c) ==
    IF c.name \notin DOMAIN seg.labels
    THEN /\ pc' = "segment"
         /\ panic' = "none"
         /\ DOMAIN seg'.labels = DOMAIN seg.labels \cup {c.name}
         /\ seg'.labels[c.name] = position(seg) + LabelOffset(c)
         /\ \A n \in DOMAIN seg.labels : seg'.labels[n] = seg.labels[n]
         /\ seg'.data = seg.data
         /\ seg'.references = seg.references
    ELSE /\ pc' = "panicked"
         /\ panic' = "DuplicateLabel"

\* of the label calls made so far, only the last can repeat an earlier name,
\* and then it has failed
NoNameBoundTwice ==
    \A i, j \in 1..Len(history) :
        (/\ i < j
         /\ history[i].fn \in {"label", "offset_label"}
         /\ history[j].fn \in {"label", "offset_label"}
         /\ history[i].name = history[j].name)
            => (j = Len(history) /\ pc = "panicked" /\ panic = "DuplicateLabel")

\* C14: label(name) and offset_label(offset, name) bind an unbound name to
\* position() + offset (offset 0 for label) and leave data and references
\* unchanged; on a name already bound in the segment they fail with
\* DuplicateLabel, so no name is bound twice in one segment.
C14_LabelBinding ==
    /\ [][IsLabelCall => LabelCallEffect(history'[Len(history')])]_vars
    /\ [](pc \in {"segment", "panicked"} => NoNameBoundTwice)

C14_Witness ==
    /\ pc = "panicked"
    /\ panic = "DuplicateLabel"
    /\ history = << [fn |-> "offset_label", offset |-> 2, name |-> "a"],
                    [fn |-> "extend", bytes |-> <<144>>],
                    [fn |-> "label", name |-> "a"] >>

\* the step is a call of one of the four reference-recording methods
IsReferenceCall ==
    /\ pc = "segment"
    /\ Len(history') = Len(history) + 1
    /\ history'[Len(history')].fn \in RawReferenceCalls \cup {"append_reference"}

\* the location a reference-recording call c records
RecordedLocation(c) ==
    CASE c.fn = "append_reference"   -> position(seg)
      [] c.fn = "reference"          -> position(seg)
      [] c.fn = "offset_reference"   -> position(seg) + c.offset
      [] c.fn = "absolute_reference" -> c.location

\* the references recorded under name n, none if n has no entry
ReferencesOf(segment, n) ==
    IF n \in DOMAIN segment.references THEN segment.references[n] ELSE << >>

\* the call c has pushed one reference under c.name and changed no other entry
OneReferenceRecorded(c) ==
    /\ DOMAIN seg'.references = DOMAIN seg.references \cup {c.name}
    /\ seg'.references[c.name] =
           Append(ReferencesOf(seg, c.name),
                  [location |-> RecordedLocation(c), format |-> c.format])
    /\ \A n \in DOMAIN seg.references \ {c.name} :
           seg'.references[n] = seg.references[n]

\* what a reference-recording call c does to the data
ReferenceCallData(c) ==
    IF c.fn = "append_reference"
    THEN /\ position(seg') = position(seg) + len(c.format)
         /\ SubSeq(seg'.data, 1, position(seg)) = seg.data
         /\ \A k \in position(seg) + 1..position(seg') : seg'.data[k] = 0
    ELSE seg'.data = seg.data

\* C15: append_reference(name, fmt) records {location = position() before the
\* call, format = fmt} under name and appends fmt.len() zero bytes; reference,
\* offset_reference and absolute_reference record a reference at position(),
\* position() + offset and location, and leave position() and the data unchanged.
C15_ReferenceRecording ==
    [][IsReferenceCall =>
          /\ pc' = "segment"
          /\ OneReferenceRecorded(history'[Len(history')])
          /\ ReferenceCallData(history'[Len(history')])
          /\ seg'.labels = seg.labels]_vars

C15_Witness ==
    /\ pc = "segment"
    /\ history = << [fn |-> "extend", bytes |-> <<144>>],
                    [fn |-> "offset_reference", offset |-> 1, name |-> "b",
                     format |-> "Rel32"],
                    [fn |-> "append_reference", name |-> "a", format |-> "Abs32"] >>
    /\ seg.references["b"] = << [location |-> 2, format |-> "Rel32"] >>
    /\ seg.references["a"] = << [location |-> 1, format |-> "Abs32"] >>
    /\ seg.data = <<144, 0, 0, 0, 0>>

\* the powers of two requested by the align calls made so far
RequestedAlignments ==
    {history[i].alignment : i \in {j \in 1..Len(history) :
        history[j].fn = "align" /\ is_power_of_two(history[j].alignment)}}

\* the largest member of a non-empty set of numbers
Largest(S) == CHOOSE m \in S : \A x \in S : x <= m

\* the alignment is 1 or the largest power of two requested so far; the
\* segment has failed with AlignmentNotPowerOfTwo exactly when the last call
\* is align of a number that is not a power of two
AlignmentIsLargestRequest ==
    /\ seg.alignment = Largest({1} \cup RequestedAlignments)
    /\ panic = "AlignmentNotPowerOfTwo" <=>
           /\ pc = "panicked"
           /\ history[Len(history)].fn = "align"
           /\ ~is_power_of_two(history[Len(history)].alignment)

\* the step is a call of align
IsAlignCall ==
    /\ pc = "segment"
    /\ Len(history') = Len(history) + 1
    /\ history'[Len(history')].fn = "align"

\* what align(n) does: the maximum for a power of two, nothing but the
\* failure otherwise; a request at or below the alignment changes nothing
AlignCallEffect(n) ==
    /\ seg'.data = seg.data /\ seg'.labels = seg.labels
    /\ seg'.references = seg.references
    /\ IF is_power_of_two(n)
       THEN /\ pc' = "segment"
            /\ seg'.alignment = Largest({seg.alignment, n})
            /\ n <= seg.alignment => seg' = seg
       ELSE /\ pc' = "panicked"
            /\ seg'.alignment = seg.alignment

\* C16: align(n) with n a power of two sets the alignment to
\* max(current, n); the alignment starts at 1, never decreases, always equals
\* the largest n requested so far, and a repeated align(n) changes nothing;
\* align(n) with n not a power of two fails with AlignmentNotPowerOfTwo and
\* leaves the alignment unchanged.
C16_AlignMax ==
    /\ [](pc \in {"segment", "panicked"} => AlignmentIsLargestRequest)
    /\ [][pc = "segment" => seg'.alignment >= seg.alignment]_vars
    /\ [][IsAlignCall => AlignCallEffect(history'[Len(history')].alignment)]_vars

C16_Witness ==
    /\ pc = "panicked"
    /\ panic = "AlignmentNotPowerOfTwo"
    /\ history = << [fn |-> "align", alignment |-> 8],
                    [fn |-> "align", alignment |-> 2],
                    [fn |-> "align", alignment |-> 3] >>
    /\ seg.alignment = 8

-----------------------------------------------------------------------------
(* x86/register.rs: registers *)

\* u8 | u8
RECURSIVE BitOr(_, _, _)
BitOr(x, y, k) ==
    IF k = 0 THEN 0
    ELSE (IF x % 2 = 1 \/ y % 2 = 1 THEN 1 ELSE 0)
             + 2 * BitOr(x \div 2, y \div 2, k - 1)

Or8(x, y) == BitOr(x, y, 8)

\* u8 & u8
RECURSIVE BitAnd(_, _, _)
BitAnd(x, y, k) ==
    IF k = 0 THEN 0
    ELSE (IF x % 2 = 1 /\ y % 2 = 1 THEN 1 ELSE 0)
             + 2 * BitAnd(x \div 2, y \div 2, k - 1)

And8(x, y) == BitAnd(x, y, 8)

\* u8 << k, the bits shifted out are lost
Shl8(x, k) == (x * 2 ^ k) % 256

\* u8 >> k
Shr8(x, k) == x \div 2 ^ k

\* a register is its enum and its variant: [R64 |-> "RAX"], [R8 |-> "AL"]
\* enum R64, in the order of R64::code
R64 == << "RAX", "RCX", "RDX", "RBX", "RSP", "RBP", "RSI", "RDI",
          "R8", "R9", "R10", "R11", "R12", "R13", "R14", "R15" >>

\* enum R8, in the order of R8::code
R8 == << "AL", "CL", "DL", "BL", "AH", "CH", "DH", "BH",
         "R8B", "R9B", "R10B", "R11B", "R12B", "R13B", "R14B", "R15B" >>

\* R64::code and R8::code
code(r) ==
    IF DOMAIN r = {"R64"}
    THEN (CHOOSE k \in 1..16 : R64[k] = r.R64) - 1
    ELSE (CHOOSE k \in 1..16 : R8[k] = r.R8) - 1

code_3bit(r) == And8(code(r), 7)

upper_bit(r) == Shr8(code(r), 3)

\* impl Register
in_opcode(r) == Shl8(code_3bit(r), 0)

in_rm(r) == Shl8(code_3bit(r), 0)

in_reg(r) == Shl8(code_3bit(r), 3)

\* R64::in_base asserts that self is not RBP: "RBP cannot be used as base"
in_base_asserted(r) == r # [R64 |-> "RBP"]

in_base(r) == Shl8(code_3bit(r), 0)

\* R64::in_index asserts that self is not RSP: "RSP cannot be used as index"
in_index_asserted(r) == r # [R64 |-> "RSP"]

in_index(r) == Shl8(code_3bit(r), 3)

rex_b(r) == Shl8(upper_bit(r), 0)

rex_x(r) == Shl8(upper_bit(r), 1)

rex_r(r) == Shl8(upper_bit(r), 2)

-----------------------------------------------------------------------------
(* x86/instruction.rs: InstructionBuilder *)

\* to_le_bytes of an integer of n <= 4 bytes, two's complement
to_le_bytes(v, n) == [k \in 1..n |-> (v \div 256 ^ (k - 1)) % 256]

\* self.modrm.unwrap_or(0x00), self.sib.unwrap_or(0x00)
unwrap_or(o, d) == IF o.some THEN o.val ELSE d

\* InstructionBuilder::new
InstructionBuilder_new ==
    [ prefixes |-> << >>, rex |-> 64, opcode_size |-> 0, opcode |-> <<0, 0, 0>>,
      modrm |-> None, sib |-> None, displacement |-> None, immediate |-> None,
      reference |-> None ]

operand_size_override(self) == [self EXCEPT !.prefixes = Append(@, 102)]

rex_w(self) == [self EXCEPT !.rex = Or8(@, 8)]

\* opcode.size() and opcode.pad_start() of a u8, [u8; 2] or [u8; 3]
pad_start(op) == [k \in 1..3 |-> IF k <= 3 - Len(op) THEN 0 ELSE op[k - (3 - Len(op))]]

opcode(self, op) == [self EXCEPT !.opcode_size = Len(op), !.opcode = pad_start(op)]

op_reg(self, r) ==
    [self EXCEPT !.rex = Or8(@, rex_b(r)),
                 !.opcode = <<@[1], @[2], Or8(@[3], in_opcode(r))>>]

mod_(self, m) ==
    [self EXCEPT !.modrm = Some(Or8(unwrap_or(@, 0), Shl8(m, 6)))]

reg(self, r) ==
    [self EXCEPT !.rex = Or8(@, rex_r(r)),
                 !.modrm = Some(Or8(unwrap_or(@, 0), in_reg(r)))]

reg_const(self, x) ==
    [self EXCEPT !.modrm = Some(Or8(unwrap_or(@, 0), Shl8(x, 3)))]

rm_reg(self, r) ==
    [self EXCEPT !.rex = Or8(@, rex_b(r)),
                 !.modrm = Some(Or8(unwrap_or(@, 0), in_rm(r)))]

rm_const(self, x) ==
    [self EXCEPT !.modrm = Some(Or8(unwrap_or(@, 0), Shl8(x, 0)))]

\* InstructionBuilder::index: the SIB field comes from reg.in_reg()
index(self, r) ==
    [self EXCEPT !.rex = Or8(@, rex_x(r)),
                 !.sib = Some(Or8(unwrap_or(@, 0), in_reg(r)))]

\* InstructionBuilder::base: reg.in_base() asserts
base_asserted(r) == in_base_asserted(r)

base(self, r) ==
    [self EXCEPT !.rex = Or8(@, rex_b(r)),
                 !.sib = Some(Or8(unwrap_or(@, 0), in_base(r)))]

\* displacement and immediate take the bytes of the Immediate
displacement(self, bytes) == [self EXCEPT !.displacement = Some(bytes)]

immediate(self, bytes) == [self EXCEPT !.immediate = Some(bytes)]

rm_literal(self, r) == rm_reg(mod_(self, 3), r)

\* Indirect<R64>(r)
indirect(self, ind) == rm_reg(mod_(self, 0), ind.f0)

\* Index<R64, R64>(f0, f1): f0 goes to index, f1 to base
indexed_indirect_asserted(ix) == base_asserted(ix.f1)

\* indexed_indirect with the two registers exchanged
indexed_indirect_exchanged(self, ix) ==
    base(index(rm_const(mod_(self, 0), 4), ix.f1), ix.f0)

indexed_indirect(self, ix) == base(index(rm_const(mod_(self, 0), 4), ix.f0), ix.f1)

\* Index<R64, i8>(f0, f1)
indexed_displacement(self, ix) ==
    displacement(rm_reg(mod_(self, 1), ix.f0), to_le_bytes(ix.f1.i8, 1))

\* InstructionBuilder::reference
InstructionBuilder_reference(self, name, format) ==
    [self EXCEPT !.reference = Some(<<name, format>>)]

\* a label is [Label |-> name], a Ptr is [Ptr |-> name]
rel32(self, name) ==
    InstructionBuilder_reference(displacement(self, to_le_bytes(0, 4)), name, "Rel32")

rip_relative(self, ptr) ==
    InstructionBuilder_reference(
        immediate(rm_const(mod_(self, 0), 5), to_le_bytes(0, 4)),
        [Label |-> ptr.Ptr], "Rel32")

\* Option<u8> and Option<Immediate> as the bytes they chain into serialize
OptByte(o) == IF o.some THEN <<o.val>> ELSE << >>

OptBytes(o) == IF o.some THEN o.val ELSE << >>

\* serialize that always emits the REX byte
serialize_rex_always(self) ==
    self.prefixes
        \o <<self.rex>>
        \o SubSeq(self.opcode, 3 - self.opcode_size + 1, 3)
        \o OptByte(self.modrm)
        \o OptByte(self.sib)
        \o OptBytes(self.displacement)
        \o OptBytes(self.immediate)

\* InstructionBuilder::serialize
serialize(self) ==
    self.prefixes
        \o (IF And8(self.rex, 15) # 0 THEN <<self.rex>> ELSE << >>)
        \o SubSeq(self.opcode, 3 - self.opcode_size + 1, 3)
        \o OptByte(self.modrm)
        \o OptByte(self.sib)
        \o OptBytes(self.displacement)
        \o OptBytes(self.immediate)

\* InstructionBuilder::references: the reference is taken to be at the end
references(self) ==
    IF self.reference.some
    THEN << [ label |-> self.reference.val[1],
              reference |-> [ location |-> Len(serialize(self)) - len(self.reference.val[2]),
                              format |-> self.reference.val[2] ] ] >>
    ELSE << >>

-----------------------------------------------------------------------------
(* x86/instruction.rs: the encoders, impl Instruction for ... *)

\* F4 | HLT
HLT == opcode(InstructionBuilder_new, <<244>>)

\* the jump built with the opcode of the short form
JMP_Label_opcode_eb(f0) == rel32(opcode(InstructionBuilder_new, <<235>>), f0)

\* E9 cd | JMP rel32
JMP_Label(f0) == rel32(opcode(InstructionBuilder_new, <<233>>), f0)

\* 0F 84 cd | JZ rel32
JZ_Label(f0) == rel32(opcode(InstructionBuilder_new, <<15, 132>>), f0)

\* E8 cd | CALL rel32
CALL_Label(f0) == rel32(opcode(InstructionBuilder_new, <<232>>), f0)

\* FF /2 | CALL r/m64
CALL_R64(f0) == rm_literal(reg_const(opcode(InstructionBuilder_new, <<255>>), 2), f0)

\* C3 | RET
RET == opcode(InstructionBuilder_new, <<195>>)

\* NP 90 | NOP
NOP == opcode(InstructionBuilder_new, <<144>>)

\* 50+rd | PUSH r64
PUSH_R64(f0) == op_reg(opcode(InstructionBuilder_new, <<80>>), f0)

\* 58+ rd | POP r64
POP_R64(f0) == op_reg(opcode(InstructionBuilder_new, <<88>>), f0)

\* REX.W + 8B /r | MOV r64,r/m64, the r/m a rip-relative Ptr
MOV_R64_Ptr(f0, f1) ==
    rip_relative(reg(opcode(rex_w(InstructionBuilder_new), <<139>>), f0), f1)

\* REX.W + 8B /r | MOV r64,r/m64
MOV_R64_R64(f0, f1) ==
    rm_literal(reg(opcode(rex_w(InstructionBuilder_new), <<139>>), f0), f1)

MOV_R64_Indirect(f0, f1) ==
    indirect(reg(opcode(rex_w(InstructionBuilder_new), <<139>>), f0), f1)

MOV_R64_Index_R64_i8(f0, f1) ==
    indexed_displacement(reg(opcode(rex_w(InstructionBuilder_new), <<139>>), f0), f1)

MOV_R64_Index_R64_R64(f0, f1) ==
    indexed_indirect(reg(opcode(rex_w(InstructionBuilder_new), <<139>>), f0), f1)

\* 8A /r | MOV r8,r/m8
MOV_R8_Index_R64_R64(f0, f1) ==
    indexed_indirect(reg(opcode(InstructionBuilder_new, <<138>>), f0), f1)

\* REX.W + 89 /r | MOV r/m64,r64
MOV_Indirect_R64(f0, f1) ==
    reg(indirect(opcode(rex_w(InstructionBuilder_new), <<137>>), f0), f1)

\* 80 /7 ib | CMP r/m8, imm8
CMP_Index_R64_R64_u8(f0, f1) ==
    immediate(indexed_indirect(reg_const(opcode(InstructionBuilder_new, <<128>>), 7), f0),
              to_le_bytes(f1.u8, 1))

\* REX.W + FF /0 | INC r/m64
INC_R64(f0) ==
    rm_literal(reg_const(opcode(rex_w(InstructionBuilder_new), <<255>>), 0), f0)

\* the instructions whose operand is an Index<R64, R64>
IndexedForms == {"MOV_R64_Index_R64_R64", "MOV_R8_Index_R64_R64", "CMP_Index_R64_R64_u8"}

\* the Index<R64, R64> operand of such an instruction
IndexOperand(i) == IF i.form = "CMP_Index_R64_R64_u8" THEN i.f0 ELSE i.f1

\* Instruction::encode: no assert on the way fails
encode_asserted(i) == i.form \in IndexedForms => indexed_indirect_asserted(IndexOperand(i))

\* Instruction::encode
encode(i) ==
    CASE i.form = "HLT" -> HLT
      [] i.form = "JMP_Label" -> JMP_Label(i.f0)
      [] i.form = "JZ_Label" -> JZ_Label(i.f0)
      [] i.form = "CALL_Label" -> CALL_Label(i.f0)
      [] i.form = "CALL_R64" -> CALL_R64(i.f0)
      [] i.form = "RET" -> RET
      [] i.form = "NOP" -> NOP
      [] i.form = "PUSH_R64" -> PUSH_R64(i.f0)
      [] i.form = "POP_R64" -> POP_R64(i.f0)
      [] i.form = "MOV_R64_Ptr" -> MOV_R64_Ptr(i.f0, i.f1)
      [] i.form = "MOV_R64_R64" -> MOV_R64_R64(i.f0, i.f1)
      [] i.form = "MOV_R64_Indirect" -> MOV_R64_Indirect(i.f0, i.f1)
      [] i.form = "MOV_R64_Index_R64_i8" -> MOV_R64_Index_R64_i8(i.f0, i.f1)
      [] i.form = "MOV_R64_Index_R64_R64" -> MOV_R64_Index_R64_R64(i.f0, i.f1)
      [] i.form = "MOV_R8_Index_R64_R64" -> MOV_R8_Index_R64_R64(i.f0, i.f1)
      [] i.form = "MOV_Indirect_R64" -> MOV_Indirect_R64(i.f0, i.f1)
      [] i.form = "CMP_Index_R64_R64_u8" -> CMP_Index_R64_R64_u8(i.f0, i.f1)
      [] i.form = "INC_R64" -> INC_R64(i.f0)

-----------------------------------------------------------------------------
(* Instructions a client encodes *)

\* the 64-bit and the 8-bit registers
R64s == {[R64 |-> R64[k]] : k \in 1..16}

R8s == {[R8 |-> R8[k]] : k \in 1..16}

\* R64::RAX and the like
Reg64(variant) == [R64 |-> variant]

Reg8(variant) == [R8 |-> variant]

\* Index(f0, f1) over every pair of 64-bit registers
IndexPairs == {[f0 |-> x, f1 |-> y] : x, y \in R64s}

EncodeCalls ==
    {[form |-> f] : f \in {"HLT", "RET", "NOP"}}
    \cup {[form |-> f, f0 |-> [Label |-> n]] :
             f \in {"JMP_Label", "JZ_Label", "CALL_Label"}, n \in NameInputs}
    \cup {[form |-> f, f0 |-> r] : f \in {"CALL_R64", "PUSH_R64", "POP_R64", "INC_R64"},
                                   r \in R64s}
    \cup {[form |-> "MOV_R64_Ptr", f0 |-> r, f1 |-> [Ptr |-> "a"]] :
             r \in {Reg64("RSI"), Reg64("R12")}}
    \cup {[form |-> "MOV_R64_R64", f0 |-> r, f1 |-> q] : r \in {Reg64("RAX"), Reg64("R10")}, q \in R64s}
    \cup {[form |-> "MOV_R64_Indirect", f0 |-> r, f1 |-> [f0 |-> q]] :
             r \in {Reg64("RAX"), Reg64("R10")}, q \in R64s}
    \cup {[form |-> "MOV_R64_Index_R64_i8", f0 |-> Reg64("RSI"),
           f1 |-> [f0 |-> q, f1 |-> [i8 |-> d]]] :
             q \in R64s, d \in {8, -8}}
    \cup {[form |-> "MOV_Indirect_R64", f0 |-> [f0 |-> q], f1 |-> r] :
             r \in {Reg64("RCX"), Reg64("R15")}, q \in R64s}
    \cup {[form |-> "MOV_R64_Index_R64_R64", f0 |-> r, f1 |-> ix] :
             r \in {Reg64("RAX"), Reg64("R9")}, ix \in IndexPairs}
    \cup {[form |-> "MOV_R8_Index_R64_R64", f0 |-> r, f1 |-> ix] :
             r \in {Reg8("AL"), Reg8("R11B")}, ix \in IndexPairs}
    \cup {[form |-> "CMP_Index_R64_R64_u8", f0 |-> ix, f1 |-> [u8 |-> 0]] : ix \in IndexPairs}

\* a client is about to encode one instruction
InitEncode ==
    /\ segment_headers = << >>
    /\ segments = << >>
    /\ linked = None
    /\ panic = "none"
    /\ labels = EmptyMap
    /\ pc = "encode"
    /\ call \in EncodeCalls
    /\ ret = Pending
    /\ seg = Idle
    /\ asm = Idle
    /\ history = << >>

\* instruction.encode() returns the builder; its bytes are encode().serialize()
EncodeReturns ==
    /\ pc = "encode"
    /\ encode_asserted(call)
    /\ ret' = [builder |-> encode(call), bytes |-> serialize(encode(call))]
    /\ pc' = "encoded"
    /\ UNCHANGED <<segment_headers, segments, linked, panic, labels, call, seg, asm, history>>

\* an assert of a register projection fails: nothing is returned
EncodePanics ==
    /\ pc = "encode"
    /\ ~encode_asserted(call)
    /\ panic' = "InvalidOperand"
    /\ pc' = "panicked"
    /\ UNCHANGED <<segment_headers, segments, linked, labels, call, ret, seg, asm, history>>

NextEncode == EncodeReturns \/ EncodePanics

SpecEncode == InitEncode /\ [][NextEncode]_vars

-----------------------------------------------------------------------------
(* x86/mod.rs: Assembler *)

\* EB cb | JMP rel8, the short candidate of a jump with two encodings
JMP_Label_rel8(f0) ==
    InstructionBuilder_reference(
        displacement(opcode(InstructionBuilder_new, <<235>>), to_le_bytes(0, 1)),
        f0, "Rel8")

\* 66 EB cb | the short jump behind a prefix, a second candidate that is
\* also limited to a Rel8 displacement
JMP_Label_rel8_prefixed(f0) == operand_size_override(JMP_Label_rel8(f0))

\* B8+rd id | MOV r32, imm32 with the address of a label as an Abs32 reference
MOV_R64_Label_abs32(f0, f1) ==
    InstructionBuilder_reference(
        immediate(op_reg(opcode(InstructionBuilder_new, <<184>>), f0),
                  [k \in 1..4 |-> 0]),
        f1, "Abs32")

\* REX.W + B8+rd io | MOV r64, imm64 with the address as an Abs64 reference
MOV_R64_Label_abs64(f0, f1) ==
    InstructionBuilder_reference(
        immediate(op_reg(opcode(rex_w(InstructionBuilder_new), <<184>>), f0),
                  [k \in 1..8 |-> 0]),
        f1, "Abs64")

\* InstructionOptions::options: the candidate encodings in order, largest
\* last; an Instruction has the one candidate encode() builds
options(i) ==
    CASE i.form = "JMP_Label_short_or_near" ->
             <<JMP_Label_rel8(i.f0), JMP_Label(i.f0)>>
      [] i.form = "JMP_Label_short" ->
             <<JMP_Label_rel8(i.f0), JMP_Label_rel8_prefixed(i.f0)>>
      [] i.form = "MOV_R64_Label" ->
             <<MOV_R64_Label_abs32(i.f0, i.f1), MOV_R64_Label_abs64(i.f0, i.f1)>>
      [] OTHER -> <<encode(i)>>

\* Assembler::new
Assembler_new == [segment |-> Segment_new, pending_instructions |-> << >>]

\* Assembler::label
Assembler_label(self, name) == [self EXCEPT !.segment = label(@, name)]

\* push: `for (label, reference) in encoded.references()`, from the k-th on
RECURSIVE push_references(_, _, _)
push_references(segment, refs, k) ==
    IF k > Len(refs) THEN segment
    ELSE push_references(
             offset_reference(segment, refs[k].reference.location,
                              refs[k].label.Label, refs[k].reference.format),
             refs, k + 1)

\* the trivial case with the bytes appended before the references are recorded
push_encoded_bytes_first(self, encoded) ==
    [self EXCEPT !.segment =
        push_references(extend(@, serialize(encoded)), references(encoded), 1)]

\* push, the trivial case: the references, then the bytes
push_encoded(self, encoded) ==
    [self EXCEPT !.segment =
        extend(push_references(@, references(encoded), 1), serialize(encoded))]

\* the length of the first candidate taken as the reservation
worst_case_size_first(opts) == Len(serialize(opts[1]))

\* push: the largest serialized length of the candidates
worst_case_size(opts) == Largest({Len(serialize(opts[k])) : k \in 1..Len(opts)})

\* push, several candidates: zeros are reserved and the instruction is pending
push_pending(self, opts) ==
    [ segment |-> extend(self.segment, [k \in 1..worst_case_size(opts) |-> 0]),
      pending_instructions |->
          Append(self.pending_instructions,
                 [ location |-> position(self.segment),
                   size |-> worst_case_size(opts),
                   options |-> opts ]) ]

\* Assembler::push
push(self, instruction) ==
    IF Len(options(instruction)) = 1
    THEN push_encoded(self, options(instruction)[1])
    ELSE push_pending(self, options(instruction))

\* finish, first sweep: a reference of the encoding has no label in this
\* segment, or is not relative
any_unresolvable(segment, refs) ==
    \E k \in 1..Len(refs) :
        \/ ~label_location(segment, refs[k].label.Label).some
        \/ ~is_relative(refs[k].reference.format)

\* the fill running on to the end of the data
fill_to_end(data, location, size, byte) ==
    [k \in 1..Len(data) |-> IF k > location THEN byte ELSE data[k]]

\* dest.fill(byte) for dest = data[location..][..size]
fill(data, location, size, byte) ==
    [k \in 1..Len(data) |->
        IF k > location /\ k <= location + size THEN byte ELSE data[k]]

\* dest.fill(0x90); dest[..encoded.len()].copy_from_slice(&encoded)
fill_and_copy(data, pending, encoded) ==
    copy_from_slice(fill(data, pending.location, pending.size, 144),
                    pending.location, encoded)

\* finish, first sweep: the references become absolute ones, from the k-th on
RECURSIVE absolute_references(_, _, _, _)
absolute_references(segment, pending, refs, k) ==
    IF k > Len(refs) THEN segment
    ELSE absolute_references(
             absolute_reference(segment, pending.location + refs[k].reference.location,
                                refs[k].label.Label, refs[k].reference.format),
             pending, refs, k + 1)

\* the commit with the references left at their place in the encoding
commit_largest_unanchored(segment, pending, encoding) ==
    absolute_references(
        [segment EXCEPT !.data = fill_and_copy(@, pending, serialize(encoding))],
        [pending EXCEPT !.location = 0], references(encoding), 1)

\* finish, first sweep: the pending instruction is committed with encoding
commit_largest(segment, pending, encoding) ==
    absolute_references(
        [segment EXCEPT !.data = fill_and_copy(@, pending, serialize(encoding))],
        pending, references(encoding), 1)

\* finish, first sweep: pending_instructions.retain(..), from the k-th on
RECURSIVE retain(_, _, _, _)
retain(segment, pendings, k, kept) ==
    IF k > Len(pendings)
    THEN [segment |-> segment, pending_instructions |-> kept]
    ELSE IF any_unresolvable(segment,
                references(pendings[k].options[Len(pendings[k].options)]))
    THEN retain(commit_largest(segment, pendings[k],
                               pendings[k].options[Len(pendings[k].options)]),
                pendings, k + 1, kept)
    ELSE retain(segment, pendings, k + 1, Append(kept, pendings[k]))

\* finish, second sweep: the references of one encoding are resolved into
\* its bytes, from the k-th on; None is `continue 'options`
RECURSIVE resolve_references(_, _, _, _, _)
RECURSIVE resolve_references_next(_, _, _, _, _, _)
resolve_references(segment, pending, refs, encoded, k) ==
    IF k > Len(refs) THEN [panic |-> "none", encoded |-> Some(encoded)]
    ELSE IF ~label_location(segment, refs[k].label.Label).some
    THEN [panic |-> "UnwrapNone", encoded |-> None]
    ELSE resolve_references_next(segment, pending, refs, encoded, k,
             resolve(refs[k].reference.format,
                     U64(pending.location + refs[k].reference.location),
                     U64(label_location(segment, refs[k].label.Label).val)))

resolve_references_next(segment, pending, refs, encoded, k, bytes) ==
    IF bytes.some
    THEN resolve_references(segment, pending, refs,
             copy_from_slice(encoded, refs[k].reference.location, bytes.val), k + 1)
    ELSE [panic |-> "none", encoded |-> None]

\* finish, second sweep: `'options: for encoding in &pending.options`, from
\* the j-th on; the first encoding whose references all resolve is written
RECURSIVE first_viable(_, _, _)
RECURSIVE first_viable_next(_, _, _, _)
first_viable(segment, pending, j) ==
    IF j > Len(pending.options)
    THEN [panic |-> "NoViableEncoding", segment |-> segment]
    ELSE first_viable_next(segment, pending, j,
             resolve_references(segment, pending, references(pending.options[j]),
                                serialize(pending.options[j]), 1))

first_viable_next(segment, pending, j, r) ==
    IF r.panic # "none" THEN [panic |-> r.panic, segment |-> segment]
    ELSE IF r.encoded.some
    THEN [panic |-> "none",
          segment |-> [segment EXCEPT !.data = fill_and_copy(@, pending, r.encoded.val)]]
    ELSE first_viable(segment, pending, j + 1)

\* finish, second sweep: `'pending: for pending in &self.pending_instructions`
RECURSIVE shortest_viable(_, _, _)
RECURSIVE shortest_viable_next(_, _, _)
shortest_viable(segment, pendings, k) ==
    IF k > Len(pendings) THEN [panic |-> "none", segment |-> segment]
    ELSE shortest_viable_next(first_viable(segment, pendings[k], 1), pendings, k)

shortest_viable_next(r, pendings, k) ==
    IF r.panic # "none" THEN r ELSE shortest_viable(r.segment, pendings, k + 1)

\* finish: the second sweep runs on what the first has retained
finish_sweeps(retained) ==
    shortest_viable(retained.segment, retained.pending_instructions, 1)

\* Assembler::finish: the segment returned, or the panic
Assembler_finish(self) ==
    finish_sweeps(retain(self.segment, self.pending_instructions, 1, << >>))

-----------------------------------------------------------------------------
(* An Assembler driven by a client *)

\* asm.label(name)
AsmLabelInputs ==
    {[fn |-> "label", name |-> n] : n \in NameInputs \cup {"entry", "terminal_callback"}}

\* the instructions pushed: one byte, three bytes, jumps and a rip-relative
\* load with a reference, and a jump with two candidates
PushInstructions ==
    { [form |-> "NOP"],
      [form |-> "MOV_R64_R64", f0 |-> Reg64("RAX"), f1 |-> Reg64("R10")],
      [form |-> "JMP_Label", f0 |-> [Label |-> "a"]],
      [form |-> "JMP_Label", f0 |-> [Label |-> "entry"]],
      [form |-> "MOV_R64_Ptr", f0 |-> Reg64("RSI"), f1 |-> [Ptr |-> "b"]],
      [form |-> "JMP_Label_short_or_near", f0 |-> [Label |-> "a"]],
      [form |-> "JMP_Label_short_or_near", f0 |-> [Label |-> "b"]] }

\* asm.push(instruction)
PushInputs == {[fn |-> "push", instruction |-> i] : i \in PushInstructions}

\* let mut asm = Assembler::new()
InitAssembler ==
    /\ segment_headers = << >>
    /\ segments = << >>
    /\ linked = None
    /\ panic = "none"
    /\ labels = EmptyMap
    /\ pc = "assembling"
    /\ call = Idle
    /\ ret = Idle
    /\ seg = Idle
    /\ asm = Assembler_new
    /\ history = << >>

\* asm.label(name)
AsmLabel ==
    /\ pc = "assembling"
    /\ Len(history) < MaxCalls
    /\ \E c \in AsmLabelInputs :
        /\ history' = Append(history, c)
        /\ asm' = Assembler_label(asm, c.name)
        /\ IF offset_label_unique(asm.segment, c.name)
           THEN UNCHANGED <<pc, panic>>
           ELSE pc' = "panicked" /\ panic' = "DuplicateLabel"
    /\ UNCHANGED <<segment_headers, segments, linked, labels, call, ret, seg>>

\* asm.push(instruction)
AsmPush ==
    /\ pc = "assembling"
    /\ Len(history) < MaxCalls
    /\ \E c \in PushInputs :
        /\ history' = Append(history, c)
        /\ asm' = push(asm, c.instruction)
    /\ UNCHANGED <<segment_headers, segments, linked, panic, labels, pc, call, ret, seg>>

\* Assembler::finish has returned r
AsmFinishReturns(r) ==
    /\ history' = Append(history, [fn |-> "finish"])
    /\ asm' = Idle
    /\ IF r.panic = "none"
       THEN pc' = "finished" /\ seg' = r.segment /\ UNCHANGED panic
       ELSE pc' = "panicked" /\ panic' = r.panic /\ UNCHANGED seg
    /\ UNCHANGED <<segment_headers, segments, linked, labels, call, ret>>

\* let segment = asm.finish()
AsmFinish ==
    /\ pc = "assembling"
    /\ AsmFinishReturns(Assembler_finish(asm))

-----------------------------------------------------------------------------
(* Properties of the encoders *)

\* the encode call under test has a SIB-addressed operand and has ended
IndexedCallDone ==
    /\ pc \in {"encoded", "panicked"}
    /\ call.form \in IndexedForms

\* the registers indexed_indirect puts in the SIB index and base fields
SibIndex == IndexOperand(call).f0

SibBase == IndexOperand(call).f1

\* C19: building a SIB-addressed operand fails with InvalidOperand, no bytes
\* produced, whenever RBP is the SIB base or RSP is the SIB index, and
\* succeeds for every other pair of 64-bit registers.
C19_InvalidSibOperand ==
    IndexedCallDone =>
        IF SibBase = Reg64("RBP") \/ SibIndex = Reg64("RSP")
        THEN pc = "panicked" /\ panic = "InvalidOperand" /\ ret = Pending
        ELSE pc = "encoded" /\ panic = "none"

\* the REX prefix of the bytes returned, 0x40 when the bytes have none
RexOf(bytes) == IF bytes[1] \div 16 = 4 THEN bytes[1] ELSE 64

\* where the ModR/M byte of an indexed form is: after the REX prefix, if
\* any, and the one opcode byte
ModRMAt(bytes) == IF bytes[1] \div 16 = 4 THEN 3 ELSE 2

\* bit k of a byte
BitOf(x, k) == (x \div 2 ^ k) % 2

\* the ModR/M, SIB and REX bits of an Index(R64, R64) encoding
SibEncoding(bytes, idx, bse) ==
    /\ Len(bytes) >= ModRMAt(bytes) + 1
    /\ bytes[ModRMAt(bytes)] \div 64 = 0
    /\ bytes[ModRMAt(bytes)] % 8 = 4
    /\ bytes[ModRMAt(bytes) + 1] \div 64 = 0
    /\ (bytes[ModRMAt(bytes) + 1] \div 8) % 8 = code(idx) % 8
    /\ bytes[ModRMAt(bytes) + 1] % 8 = code(bse) % 8
    /\ BitOf(RexOf(bytes), 1) = 1 <=> code(idx) >= 8
    /\ BitOf(RexOf(bytes), 0) = 1 <=> code(bse) >= 8

\* C20: for every register pair accepted by the Index(R64, R64) operand
\* form, the encoding has ModR/M mod = 00 and r/m = 100 followed by a SIB
\* byte with scale 00, index field = low 3 bits of the index register's
\* code, base field = low 3 bits of the base register's code, REX.X set
\* exactly when the index code is >= 8 and REX.B exactly when the base
\* code is >= 8.
C20_SibEncoding ==
    (IndexedCallDone /\ pc = "encoded") =>
        /\ ret.bytes = serialize(ret.builder)
        /\ ret.builder.modrm.some /\ ret.builder.sib.some
        /\ ret.bytes[ModRMAt(ret.bytes)] = ret.builder.modrm.val
        /\ ret.bytes[ModRMAt(ret.bytes) + 1] = ret.builder.sib.val
        /\ SibEncoding(ret.bytes, SibIndex, SibBase)

C20_Witness ==
    /\ pc = "encoded"
    /\ call = [form |-> "MOV_R64_Index_R64_R64", f0 |-> Reg64("R9"),
               f1 |-> [f0 |-> Reg64("R10"), f1 |-> Reg64("RBX")]]
    /\ ret.bytes = <<78, 139, 12, 19>>

-----------------------------------------------------------------------------
(* Properties of the Assembler *)

\* the step is a push of an instruction with exactly one candidate
IsSinglePush ==
    /\ pc = "assembling"
    /\ Len(history') = Len(history) + 1
    /\ history'[Len(history')].fn = "push"
    /\ Len(options(history'[Len(history')].instruction)) = 1

\* the push of the encoding enc has appended its bytes and nothing else
BytesAppended(enc) ==
    /\ asm'.segment.data = asm.segment.data \o serialize(enc)
    /\ asm'.segment.labels = asm.segment.labels
    /\ asm'.pending_instructions = asm.pending_instructions

\* the push of the encoding enc of S bytes at position P has recorded its
\* reference, if it has one, at P + S - f.len(): the last f.len() bytes of
\* the instruction, inside the data
ReferenceAtEnd(enc, P, S) ==
    IF enc.reference.some
    THEN /\ asm'.segment.references =
                Insert(asm.segment.references, enc.reference.val[1].Label,
                       Append(ReferencesOf(asm.segment, enc.reference.val[1].Label),
                              [ location |-> P + S - len(enc.reference.val[2]),
                                format |-> enc.reference.val[2] ]))
         /\ P + S - len(enc.reference.val[2]) >= P
         /\ P + S = Len(asm'.segment.data)
    ELSE asm'.segment.references = asm.segment.references

\* C17: push of an instruction with exactly one candidate of serialized
\* length S at position P appends exactly those S bytes and, if the encoding
\* carries a reference of format f, records one reference at P + S - f.len(),
\* the last f.len() bytes of the instruction, inside the data.
C17_SinglePush ==
    [][IsSinglePush =>
          /\ pc' = "assembling"
          /\ BytesAppended(encode(history'[Len(history')].instruction))
          /\ ReferenceAtEnd(encode(history'[Len(history')].instruction),
                            position(asm.segment),
                            Len(serialize(encode(history'[Len(history')].instruction))))]_vars

C17_Witness ==
    /\ pc = "assembling"
    /\ Len(history) = 2
    /\ history[2] = [fn |-> "push",
                     instruction |-> [form |-> "JMP_Label", f0 |-> [Label |-> "a"]]]
    /\ asm.segment.data = <<73, 139, 194, 233, 0, 0, 0, 0>>
    /\ asm.segment.references["a"] = << [location |-> 4, format |-> "Rel32"] >>

\* by how much the push of instruction i is to advance the position: the
\* length of the one candidate, or of the longest of several
Advance(i) ==
    CHOOSE m \in {Len(serialize(options(i)[k])) : k \in 1..Len(options(i))} :
        \A k \in 1..Len(options(i)) : Len(serialize(options(i)[k])) <= m

\* the sum of the advances of the pushes among the first j calls
RECURSIVE AdvancesUpTo(_)
AdvancesUpTo(j) ==
    IF j = 0 THEN 0
    ELSE AdvancesUpTo(j - 1)
             + (IF history[j].fn = "push" THEN Advance(history[j].instruction) ELSE 0)

\* the step is a push
IsPush ==
    /\ pc = "assembling"
    /\ Len(history') = Len(history) + 1
    /\ history'[Len(history')].fn = "push"

\* what the push of instruction i does to the position and the pending list
PushAdvances(i) ==
    /\ position(asm'.segment) = position(asm.segment) + Advance(i)
    /\ SubSeq(asm'.segment.data, 1, position(asm.segment)) = asm.segment.data
    /\ asm'.segment.labels = asm.segment.labels
    /\ IF Len(options(i)) = 1
       THEN asm'.pending_instructions = asm.pending_instructions
       ELSE /\ \A k \in position(asm.segment) + 1..position(asm'.segment) :
                   asm'.segment.data[k] = 0
            /\ asm'.pending_instructions =
                   Append(asm.pending_instructions,
                          [ location |-> position(asm.segment),
                            size |-> Advance(i),
                            options |-> options(i) ])
            /\ asm'.segment.references = asm.segment.references

\* every label declared so far is bound to the sum of the advances of the
\* pushes before its declaration
LabelsAfterPushes(segment) ==
    /\ position(segment) = AdvancesUpTo(Len(history))
    /\ \A j \in 1..Len(history) :
           history[j].fn = "label" =>
               /\ history[j].name \in DOMAIN segment.labels
               /\ segment.labels[history[j].name] = AdvancesUpTo(j)

\* C18: each push advances the position by the single candidate's length,
\* or for several candidates by the largest candidate's length, reserved as
\* zero bytes and enqueued as pending; a label declared after N pushes is
\* bound to the sum of those N advances; finish changes neither the segment
\* length nor any label's offset.
C18_LayoutFixed ==
    /\ [][IsPush => PushAdvances(history'[Len(history')].instruction)]_vars
    /\ [](pc = "assembling" => LabelsAfterPushes(asm.segment))
    /\ [](pc = "finished" => LabelsAfterPushes(seg))
    /\ [][(pc = "assembling" /\ pc' = "finished") =>
            /\ Len(seg'.data) = Len(asm.segment.data)
            /\ seg'.labels = asm.segment.labels]_vars

C18_Witness ==
    /\ pc = "finished"
    /\ history = << [fn |-> "push",
                     instruction |-> [form |-> "JMP_Label_short_or_near",
                                      f0 |-> [Label |-> "a"]]],
                    [fn |-> "push", instruction |-> [form |-> "NOP"]],
                    [fn |-> "label", name |-> "a"],
                    [fn |-> "finish"] >>
    /\ seg.labels["a"] = 6
    /\ seg.data = <<235, 4, 144, 144, 144, 144>>

-----------------------------------------------------------------------------
(* Properties of register-direct and [reg] operands *)

\* the forms with a register-direct operand and with a [reg] operand
DirectForms == {"CALL_R64", "INC_R64", "MOV_R64_R64"}

IndirectForms == {"MOV_R64_Indirect", "MOV_Indirect_R64"}

\* the one opcode byte of such a form, and whether it sets REX.W
FormOpcode(c) ==
    CASE c.form \in {"CALL_R64", "INC_R64"} -> 255
      [] c.form \in {"MOV_R64_R64", "MOV_R64_Indirect"} -> 139
      [] c.form = "MOV_Indirect_R64" -> 137

FormW(c) == IF c.form = "CALL_R64" THEN 0 ELSE 1

\* the register in the r/m field
FormRm(c) ==
    CASE c.form \in {"CALL_R64", "INC_R64"} -> c.f0
      [] c.form = "MOV_R64_R64" -> c.f1
      [] c.form = "MOV_R64_Indirect" -> c.f1.f0
      [] c.form = "MOV_Indirect_R64" -> c.f0.f0

\* the 4-bit value behind the reg field: the other register's code, or the
\* opcode extension /2 of CALL and /0 of INC
FormRegCode(c) ==
    CASE c.form = "CALL_R64" -> 2
      [] c.form = "INC_R64" -> 0
      [] c.form \in {"MOV_R64_R64", "MOV_R64_Indirect"} -> code(c.f0)
      [] c.form = "MOV_Indirect_R64" -> code(c.f1)

\* the W, R, X, B bits of the form as one number
RexBits(c) == 8 * FormW(c) + 4 * (FormRegCode(c) \div 8) + (code(FormRm(c)) \div 8)

\* optional REX, opcode, ModR/M
DirectEncoding(c) ==
    (IF RexBits(c) # 0 THEN <<64 + RexBits(c)>> ELSE << >>)
        \o <<FormOpcode(c)>>
        \o <<(IF c.form \in DirectForms THEN 192 ELSE 0)
                + 8 * (FormRegCode(c) % 8) + (code(FormRm(c)) % 8)>>

\* C21: for register-direct and [reg] operands the bytes are optional REX,
\* opcode, ModR/M with mod = 11 (direct) or 00 (indirect), r/m = low 3 bits of
\* the operand register, reg = low 3 bits of the other register or the opcode
\* extension; the REX byte 0x40|W|R|X|B is emitted exactly when one of the
\* bits is set; MOV RAX,[RAX] is 48 8B 00 and INC R10 is 49 FF C2.
C21_DirectAndIndirect ==
    /\ (pc = "encoded" /\ call.form \in DirectForms \cup IndirectForms)
           => ret.bytes = DirectEncoding(call)
    /\ (pc = "encoded" /\ call = [form |-> "MOV_R64_Indirect", f0 |-> Reg64("RAX"),
                                  f1 |-> [f0 |-> Reg64("RAX")]])
           => ret.bytes = <<72, 139, 0>>
    /\ (pc = "encoded" /\ call = [form |-> "INC_R64", f0 |-> Reg64("R10")])
           => ret.bytes = <<73, 255, 194>>
    /\ (pc \in {"encoded", "panicked"} /\ call.form \in DirectForms \cup IndirectForms)
           => pc = "encoded"

C21_Witness ==
    /\ pc = "encoded"
    /\ call = [form |-> "CALL_R64", f0 |-> Reg64("RBX")]
    /\ ret.bytes = <<255, 211>>

-----------------------------------------------------------------------------
(* Properties of assembling and linking *)

\* call j is asm.push(JMP(Label(n))) and call k is asm.label(n)
JumpAndLabel(j, k) ==
    /\ j \in 1..Len(history) /\ k \in 1..Len(history)
    /\ history[j].fn = "push"
    /\ history[j].instruction.form = "JMP_Label"
    /\ history[k].fn = "label"
    /\ history[k].name = history[j].instruction.f0.Label

\* the five bytes of data where the jump pushed by call j lies
JumpBytes(data, j) == SubSeq(data, AdvancesUpTo(j - 1) + 1, AdvancesUpTo(j - 1) + 5)

\* the jump pushed by call j is assembled as E9 and four zero bytes with one
\* Rel32 reference at instruction offset 1
JumpAssembled(segment, j) ==
    /\ JumpBytes(segment.data, j) = <<233, 0, 0, 0, 0>>
    /\ history[j].instruction.f0.Label \in DOMAIN segment.references
    /\ Cardinality({i \in 1..Len(segment.references[history[j].instruction.f0.Label]) :
           segment.references[history[j].instruction.f0.Label][i]
               = [location |-> AdvancesUpTo(j - 1) + 1, format |-> "Rel32"]}) = 1

\* the jump pushed by call j is linked against the label declared by call k
JumpLinked(data, j, k) ==
    /\ JumpBytes(data, j)
           = <<233>> \o ToLeBytes(AdvancesUpTo(k) - (AdvancesUpTo(j - 1) + 5), 4)
    /\ k = j + 1 => JumpBytes(data, j) = <<233, 0, 0, 0, 0>>
    /\ k = j - 1 => JumpBytes(data, j) = <<233, 251, 255, 255, 255>>

\* C22: assembling JMP to a label and linking gives E9 and a 4-byte
\* displacement with one Rel32 reference at instruction offset 1; with the
\* label declared immediately after the JMP the resolved displacement is
\* 00 00 00 00, with the label immediately before it the bytes are
\* E9 FB FF FF FF.
C22_JumpLinked ==
    /\ pc = "finished" =>
           \A j, k \in 1..Len(history) : JumpAndLabel(j, k) => JumpAssembled(seg, j)
    /\ (pc = "done" /\ history # << >> /\ panic = "none") =>
           \A j, k \in 1..Len(history) :
               JumpAndLabel(j, k) => JumpLinked(segments[3].data, j, k)

C22_Witness ==
    /\ pc = "done"
    /\ panic = "none"
    /\ linked.some
    /\ history = << [fn |-> "label", name |-> "entry"],
                    [fn |-> "push",
                     instruction |-> [form |-> "JMP_Label", f0 |-> [Label |-> "entry"]]],
                    [fn |-> "label", name |-> "terminal_callback"],
                    [fn |-> "finish"] >>
    /\ Len(segments) = 3
    /\ segments[3].data = <<233, 251, 255, 255, 255>>

-----------------------------------------------------------------------------
(* math.rs: align_up called on its own *)

\* the small arguments run from 0 to these
MaxAlignX == 12

MaxAlignY == 6

\* u64::MAX
Max64 == <<Limb - 1, Limb - 1, Limb - 1, Limb - 1>>

\* a * b does not fit in a u64: with overflow checks the multiplication
\* panics, without them it wraps
mul_overflows(a, b) == b # Zero64 /\ Gt64(a, Div64(Max64, b))

\* align_up: `(1 + (x - 1) / y) * y` overflows
align_up_overflows(x, y) ==
    x # Zero64 /\ y # Zero64 /\ mul_overflows(Add64(One64, Div64(Sub64(x, One64), y)), y)

\* the arguments: small ones, page sizes, and values at the edges of u32 and u64
AlignUpXs ==
    {U64(n) : n \in 0..MaxAlignX}
    \cup { U64(4095), U64(4096), U64(4097), <<0, 0, 65535, 65535>>, <<0, 1, 0, 0>>,
           <<65535, 65535, 32768, 0>>, <<65535, 65535, 32768, 1>>,
           <<32768, 0, 0, 0>>, <<32768, 0, 0, 1>>,
           <<65535, 65535, 65535, 61440>>, <<65535, 65535, 65535, 61441>>,
           <<65535, 65535, 65535, 65534>>, Max64 }

AlignUpYs ==
    {U64(n) : n \in 0..MaxAlignY}
    \cup {U64(16), U64(4096), <<0, 1, 0, 0>>, <<32768, 0, 0, 0>>, Max64}

AlignUpCalls == {[x |-> x, y |-> y] : x \in AlignUpXs, y \in AlignUpYs}

\* a client is about to call align_up(x, y)
InitAlignUp ==
    /\ segment_headers = << >>
    /\ segments = << >>
    /\ linked = None
    /\ panic = "none"
    /\ labels = EmptyMap
    /\ pc = "align_up"
    /\ call \in AlignUpCalls
    /\ ret = Pending
    /\ seg = Idle
    /\ asm = Idle
    /\ history = << >>

\* align_up returns; when the product overflows this is the build without
\* overflow checks, which wraps
AlignUpReturns ==
    /\ pc = "align_up"
    /\ call.x = Zero64 \/ call.y # Zero64
    /\ ret' = align_up(call.x, call.y)
    /\ pc' = "returned"
    /\ UNCHANGED <<segment_headers, segments, linked, panic, labels, call, seg, asm, history>>

\* align_up panics: a division by zero, or the product overflows in a build
\* with overflow checks
AlignUpPanics ==
    /\ pc = "align_up"
    /\ call.x # Zero64
    /\ \/ call.y = Zero64 /\ panic' = "DivisionByZero"
       \/ align_up_overflows(call.x, call.y) /\ panic' = "ArithmeticOverflow"
    /\ pc' = "panicked"
    /\ UNCHANGED <<segment_headers, segments, linked, labels, call, ret, seg, asm, history>>

NextAlignUp == AlignUpReturns \/ AlignUpPanics

SpecAlignUp == InitAlignUp /\ [][NextAlignUp]_vars

-----------------------------------------------------------------------------
(* Properties of align_up *)

\* the call of align_up has ended, with x > 0 and k >= 1
AlignUpCallDone ==
    /\ pc \in {"returned", "panicked"}
    /\ call.x # Zero64
    /\ call.y # Zero64

\* r is a multiple of k with 0 <= r - x < k, and aligning r again, or
\* aligning an x that is a multiple of k, changes nothing
AlignUpAlgebra(x, k, r) ==
    /\ Mod64(r, k) = Zero64
    /\ Le64(x, r)
    /\ Lt64(Sub64(r, x), k)
    /\ align_up(r, k) = r
    /\ Mod64(x, k) = Zero64 => r = x

\* the least multiple of k at or above x is below 2^64
FitsU64(x, k) == Le64(x, Sub64(Max64, Mod64(Max64, k)))

\* C23 as stated: align_up(0, k) = 0, and for every x > 0 and k >= 1
\* align_up(x, k) is a multiple of k with 0 <= align_up(x, k) - x < k, is a
\* fixed point of align_up(., k), and equals x when x is a multiple of k.
C23_AlignUp ==
    /\ (pc = "returned" /\ call.x = Zero64) => ret = Zero64
    /\ AlignUpCallDone => (pc = "returned" /\ AlignUpAlgebra(call.x, call.y, ret))

\* C23, amended: the same for every x > 0 and k >= 1 whose least multiple of
\* k at or above x is below 2^64; for the others the product overflows.
C23_AlignUpInRange ==
    /\ (pc = "returned" /\ call.x = Zero64) => ret = Zero64
    /\ (AlignUpCallDone /\ FitsU64(call.x, call.y))
           => (pc = "returned" /\ AlignUpAlgebra(call.x, call.y, ret))
    /\ (AlignUpCallDone /\ ~FitsU64(call.x, call.y))
           => (/\ align_up_overflows(call.x, call.y)
               /\ pc = "panicked" => panic = "ArithmeticOverflow"
               /\ pc = "returned" => Lt64(ret, call.x))

C23_Witness ==
    /\ pc = "returned"
    /\ call = [x |-> <<65535, 65535, 32768, 1>>, y |-> U64(4096)]
    /\ ret = <<65535, 65535, 32768, 4096>>

\* ---------------------------------------------------------------------------
\* Record layouts: elf64.rs (FileHeader, SectionHeader, Symbol, Phdr) and
\* limine.rs (Request).  Every record is #[repr(C)]: the fields are laid out
\* in declaration order, each at the next offset that is a multiple of its
\* alignment, and the size is rounded up to the largest alignment.
\* ---------------------------------------------------------------------------

\* common: Uchar, Half, Word, Addr/Off/Xword; arrays keep the alignment of
\* their element
Uchar == [size |-> 1, align |-> 1]
Half  == [size |-> 2, align |-> 2]
Word  == [size |-> 4, align |-> 4]
Xword == [size |-> 8, align |-> 8]
Array(ty, n) == [size |-> n * ty.size, align |-> ty.align]

EI_NIDENT == 16
SYMBOL_SIZE == 24
RESPONSE_OFFSET == 40

Field(name, ty) == [name |-> name, size |-> ty.size, align |-> ty.align]

FileHeader ==
    << Field("e_ident", Array(Uchar, EI_NIDENT)), Field("e_type", Half),
       Field("e_machine", Half), Field("e_version", Word),
       Field("e_entry", Xword), Field("e_phoff", Xword),
       Field("e_shoff", Xword), Field("e_flags", Word),
       Field("e_ehsize", Half), Field("e_phentsize", Half),
       Field("e_phnum", Half), Field("e_shentsize", Half),
       Field("e_shnum", Half), Field("e_shstrndx", Half) >>

SectionHeader ==
    << Field("sh_name", Word), Field("sh_type", Word),
       Field("sh_flags", Xword), Field("sh_addr", Xword),
       Field("sh_offset", Xword), Field("sh_size", Xword),
       Field("sh_link", Word), Field("sh_info", Word),
       Field("sh_addralign", Xword), Field("sh_entsize", Xword) >>

Symbol ==
    << Field("st_name", Word), Field("st_info", Uchar),
       Field("st_other", Uchar), Field("st_shndx", Half),
       Field("st_value", Xword), Field("st_size", Xword) >>

\* the fields in the order of the 32-bit program header, where p_flags
\* follows p_memsz
Phdr_flags_late ==
    << Field("p_type", Word), Field("p_offset", Xword),
       Field("p_vaddr", Xword), Field("p_paddr", Xword),
       Field("p_filesz", Xword), Field("p_memsz", Xword),
       Field("p_flags", Word), Field("p_align", Xword) >>
Phdr ==
    << Field("p_type", Word), Field("p_flags", Word),
       Field("p_offset", Xword), Field("p_vaddr", Xword),
       Field("p_paddr", Xword), Field("p_filesz", Xword),
       Field("p_memsz", Xword), Field("p_align", Xword) >>

Request ==
    << Field("common_magic", Array(Xword, 2)),
       Field("request_id", Array(Xword, 2)),
       Field("revision", Xword), Field("response", Xword) >>

RecordTypes == {"FileHeader", "SectionHeader", "Symbol", "Phdr", "Request"}

fields_of(ty) ==
    CASE ty = "FileHeader"    -> FileHeader
      [] ty = "SectionHeader" -> SectionHeader
      [] ty = "Symbol"        -> Symbol
      [] ty = "Phdr"          -> Phdr
      [] ty = "Request"       -> Request

declared_size(ty) ==
    CASE ty = "FileHeader"    -> FILE_HEADER_SIZE
      [] ty = "SectionHeader" -> SECTION_HEADER_SIZE
      [] ty = "Symbol"        -> SYMBOL_SIZE
      [] ty = "Phdr"          -> PROGRAM_HEADER_SIZE

round_up(n, a) == ((n + a - 1) \div a) * a

\* offset of the k-th field: the end of the previous field, rounded up to the
\* field's alignment
RECURSIVE field_offset(_, _)
field_offset(fields, k) ==
    IF k = 1 THEN 0
    ELSE round_up(field_offset(fields, k - 1) + fields[k - 1].size,
                  fields[k].align)

RECURSIVE align_of(_)
align_of(fields) ==
    IF fields = << >> THEN 1
    ELSE LET rest == align_of(Tail(fields))
         IN  IF Head(fields).align > rest THEN Head(fields).align ELSE rest

size_of(fields) ==
    IF fields = << >> THEN 0
    ELSE round_up(field_offset(fields, Len(fields)) + fields[Len(fields)].size,
                  align_of(fields))

offset_of(fields, name) ==
    field_offset(fields, CHOOSE k \in 1..Len(fields) : fields[k].name = name)

RECURSIVE sum_of_widths(_)
sum_of_widths(fields) ==
    IF fields = << >> THEN 0
    ELSE Head(fields).size + sum_of_widths(Tail(fields))

\* limine.rs
COMMON_MAGIC == << <<51121, 56624, 57164, 35720>>, <<2690, 59523, 41364, 61563>> >>
BOOTLOADER_INFO_REQUEST ==
    << <<62800, 14552, 58017, 8239>>, <<10132, 9980, 62965, 38720>> >>
TERMINAL_REQUEST ==
    << <<51372, 22833, 3115, 2116>>, <<42637, 3186, 26067, 34936>> >>

Request_new(request_id, revision) ==
    [common_magic |-> COMMON_MAGIC, request_id |-> request_id,
     revision |-> revision, response |-> Zero64]

\* the bytes of a Request as the segment receives them (bytemuck::bytes_of):
\* each field's little-endian bytes at the field's offset, zero elsewhere
Request_field_bytes(r) ==
    [common_magic |-> Bytes64(r.common_magic[1]) \o Bytes64(r.common_magic[2]),
     request_id   |-> Bytes64(r.request_id[1]) \o Bytes64(r.request_id[2]),
     revision     |-> Bytes64(r.revision),
     response     |-> Bytes64(r.response)]

bytes_of_Request(r) ==
    LET fb == Request_field_bytes(r)
        at(i) == { k \in 1..Len(Request) :
                     /\ i > field_offset(Request, k)
                     /\ i <= field_offset(Request, k) + Request[k].size }
    IN  [i \in 1..size_of(Request) |->
            IF at(i) = {} THEN 0
            ELSE LET k == CHOOSE k \in at(i) : TRUE
                 IN  fb[Request[k].name][i - field_offset(Request, k)]]

\* ---------------------------------------------------------------------------
\* Clients of the layouts: the size tests of elf64.rs, the offset test of
\* limine.rs and the requests main.rs builds.
\* ---------------------------------------------------------------------------

RequestIds == {COMMON_MAGIC, BOOTLOADER_INFO_REQUEST, TERMINAL_REQUEST,
               <<Zero64, Zero64>>}
Revisions == {Zero64, One64, U64(2)}

LayoutCalls ==
    { [fn |-> "size_of", ty |-> ty] : ty \in RecordTypes }
    \cup { [fn |-> "align_of", ty |-> ty] : ty \in RecordTypes }
    \cup UNION { { [fn |-> "offset_of", ty |-> ty, field |-> fields_of(ty)[k].name] :
                     k \in 1..Len(fields_of(ty)) } : ty \in RecordTypes }
    \cup { [fn |-> "Request_new", request_id |-> id, revision |-> rev] :
             id \in RequestIds, rev \in Revisions }

InitLayout ==
    /\ segment_headers = << >>
    /\ segments = << >>
    /\ linked = None
    /\ panic = "none"
    /\ labels = EmptyMap
    /\ seg = Idle
    /\ asm = Idle
    /\ history = << >>
    /\ ret = Pending
    /\ pc = "layout"
    /\ call \in LayoutCalls

LayoutFrame ==
    UNCHANGED <<segment_headers, segments, linked, panic, labels, seg, asm,
                history, call>>

SizeOf ==
    /\ pc = "layout"
    /\ call.fn = "size_of"
    /\ ret' = size_of(fields_of(call.ty))
    /\ pc' = "measured"
    /\ LayoutFrame

AlignOf ==
    /\ pc = "layout"
    /\ call.fn = "align_of"
    /\ ret' = align_of(fields_of(call.ty))
    /\ pc' = "measured"
    /\ LayoutFrame

OffsetOf ==
    /\ pc = "layout"
    /\ call.fn = "offset_of"
    /\ ret' = offset_of(fields_of(call.ty), call.field)
    /\ pc' = "measured"
    /\ LayoutFrame

\* rodata.append(&Request::new(id, revision))
AppendRequest ==
    /\ pc = "layout"
    /\ call.fn = "Request_new"
    /\ ret' = bytes_of_Request(Request_new(call.request_id, call.revision))
    /\ pc' = "measured"
    /\ LayoutFrame

NextLayout == SizeOf \/ AlignOf \/ OffsetOf \/ AppendRequest

SpecLayout == InitLayout /\ [][NextLayout]_vars

\* ---------------------------------------------------------------------------
\* main.rs: the read-only data and the data main builds, and the three
\* segments it links.
\* ---------------------------------------------------------------------------

\* main: rodata, with the two limine requests, the descriptor of the
\* interrupt table and the strings
rodata ==
    LET s1  == align(Segment_new, 8)
        s2  == offset_label(s1, RESPONSE_OFFSET, "terminal_response")
        s3  == append(s2, bytes_of_Request(Request_new(TERMINAL_REQUEST, Zero64)))
        s4  == append_reference(s3, "terminal_callback", "Abs64")
        s5  == offset_label(s4, RESPONSE_OFFSET, "bootloader_info_response")
        s6  == append(s5, bytes_of_Request(Request_new(BOOTLOADER_INFO_REQUEST, Zero64)))
        s7  == append(label(s6, "idtr"), to_le_bytes(64, 2))
        s8  == append_reference(s7, "idt", "Abs64")
        s9  == append(label(s8, "str_hello"), <<72, 101, 108, 108, 111, 32, 0>>)
        s10 == append(label(s9, "str_space"), <<32, 0>>)
        s11 == append(label(s10, "str_newline"), <<10, 0>>)
        s12 == append(label(s11, "str_oops"), <<111, 111, 112, 115, 33, 10, 0>>)
    IN  append(label(s12, "tohex_lut"),
               <<48, 49, 50, 51, 52, 53, 54, 55, 56, 57, 97, 98, 99, 100, 101, 102>>)

\* main: data, the interrupt table of four gates (not present) and the
\* 32-byte buffer
data_ ==
    LET gate == to_le_bytes(0, 2) \o to_le_bytes(5 * 8, 2) \o to_le_bytes(3584, 2)
                \o to_le_bytes(0, 2) \o to_le_bytes(0, 4) \o to_le_bytes(0, 4)
        s1   == append(label(Segment_new, "idt"), gate \o gate \o gate \o gate)
    IN  append(label(s1, "tohex_buffer"), [k \in 1..32 |-> 0])

\* main: let code = asm.finish() is linked after rodata and data,
\* linker.add_segment(PF_R, 1 << 12, rodata);
\* linker.add_segment(PF_R | PF_W, 1 << 12, data);
\* linker.add_segment(PF_R | PF_X, 1 << 12, code); linker.finish()
LinkCode ==
    /\ pc = "finished"
    /\ \E orders \in IterationOrders(<<rodata, data_, seg>>) :
          finish_returns(finish(<<new_program_header(PF_R, U64(4096), rodata),
                                  new_program_header(PF_R + PF_W, U64(4096), data_),
                                  new_program_header(PF_R + PF_X, U64(4096), seg)>>,
                                <<rodata, data_, seg>>, orders))

NextAssembler == AsmLabel \/ AsmPush \/ AsmFinish \/ LinkCode

SpecAssembler == InitAssembler /\ [][NextAssembler]_vars

\* ---------------------------------------------------------------------------
\* Properties of the layouts
\* ---------------------------------------------------------------------------

Measured(fn) == pc = "measured" /\ call.fn = fn

\* C24: the declared layout constants equal the record layouts: the size of
\* FileHeader is FILE_HEADER_SIZE = 64, of Phdr PROGRAM_HEADER_SIZE = 56, of
\* SectionHeader SECTION_HEADER_SIZE = 64, of Symbol SYMBOL_SIZE = 24, each the
\* sum of the record's field widths; a Request is 48 bytes, its response field
\* starts at RESPONSE_OFFSET = 40, and the eight bytes there in an appended
\* Request are the response field.
C24_LayoutConstants ==
    /\ FILE_HEADER_SIZE = 64 /\ PROGRAM_HEADER_SIZE = 56
    /\ SECTION_HEADER_SIZE = 64 /\ SYMBOL_SIZE = 24 /\ RESPONSE_OFFSET = 40
    /\ (Measured("size_of") /\ call.ty # "Request") =>
          /\ ret = declared_size(call.ty)
          /\ ret = sum_of_widths(fields_of(call.ty))
    /\ (Measured("size_of") /\ call.ty = "Request") =>
          ret = 48 /\ ret = sum_of_widths(Request)
    /\ (Measured("offset_of") /\ call.ty = "Request" /\ call.field = "response") =>
          ret = RESPONSE_OFFSET
    /\ Measured("Request_new") =>
          /\ Len(ret) = 48
          /\ SubSeq(ret, RESPONSE_OFFSET + 1, RESPONSE_OFFSET + 8) = Bytes64(Zero64)
          /\ SubSeq(ret, 33, 40) = Bytes64(call.revision)
          /\ SubSeq(ret, 17, 24) = Bytes64(call.request_id[1])

C24_Witness ==
    /\ Measured("size_of")
    /\ call.ty = "Phdr"
    /\ ret = 56

\* ---------------------------------------------------------------------------
\* Assembler::finish on assembled programs: labels, pending instructions and
\* runs of NOP that put a label near the two ends of the Rel8 range.
\* ---------------------------------------------------------------------------

\* the number of labels and instructions with candidates in a program
MaxSteps == 3
\* the longest run of NOP
MaxGap == 127

Gaps == {0} \cup ((MaxGap - 3)..MaxGap)

\* asm.push(NOP) n times: NOP has the one candidate 90 and no reference, so
\* every push extends the data by that byte
push_nops(self, n) ==
    [self EXCEPT !.segment = extend(@, [k \in 1..n |-> serialize(NOP)[1]])]

ProgramSteps ==
    { [fn |-> "label", name |-> "a"],
      [fn |-> "push",
       instruction |-> [form |-> "JMP_Label_short_or_near", f0 |-> [Label |-> "a"]]],
      [fn |-> "push",
       instruction |-> [form |-> "JMP_Label_short", f0 |-> [Label |-> "a"]]],
      [fn |-> "push",
       instruction |-> [form |-> "MOV_R64_Label", f0 |-> Reg64("RSI"),
                        f1 |-> [Label |-> "a"]]] }

\* a program: up to MaxSteps steps, and one run of NOP after the first
\* `at` of them
Programs ==
    UNION { { [steps |-> st, at |-> p, gap |-> g] :
                st \in { t \in [1..n -> ProgramSteps] :
                           Cardinality({k \in 1..n : t[k].fn = "label"}) <= 1 },
                p \in 0..n, g \in Gaps } : n \in 1..MaxSteps }

\* the Assembler after the steps of a program from the k-th on
RECURSIVE assemble(_, _, _)
assemble(self, program, k) ==
    LET padded == IF program.at = k - 1
                  THEN push_nops(self, program.gap)
                  ELSE self
    IN  IF k > Len(program.steps) THEN padded
        ELSE assemble(IF program.steps[k].fn = "label"
                      THEN Assembler_label(padded, program.steps[k].name)
                      ELSE push(padded, program.steps[k].instruction),
                      program, k + 1)

\* let mut asm = Assembler::new(); labels and pushes
InitFinish ==
    /\ segment_headers = << >>
    /\ segments = << >>
    /\ linked = None
    /\ panic = "none"
    /\ labels = EmptyMap
    /\ pc = "assembling"
    /\ call \in Programs
    /\ ret = Idle
    /\ seg = Idle
    /\ asm = assemble(Assembler_new, call, 1)
    /\ history = << >>

\* let code = asm.finish(), when it returns: the Assembler as it was is kept
\* in ret
FinishSweeps ==
    /\ pc = "assembling"
    /\ Assembler_finish(asm).panic = "none"
    /\ seg' = Assembler_finish(asm).segment
    /\ ret' = asm
    /\ asm' = Idle
    /\ pc' = "finished"
    /\ UNCHANGED <<segment_headers, segments, linked, panic, labels, call, history>>

\* asm.finish(), when it panics
FinishPanics ==
    /\ pc = "assembling"
    /\ Assembler_finish(asm).panic # "none"
    /\ panic' = Assembler_finish(asm).panic
    /\ ret' = asm
    /\ asm' = Idle
    /\ pc' = "panicked"
    /\ UNCHANGED <<segment_headers, segments, linked, labels, call, seg, history>>

\* the finished code is linked as the second segment, after 32 bytes of code
\* that define "entry": linker.add_segment(PF_R | PF_X, 1 << 12, ..) twice,
\* linker.finish()
LinkEntryAndCode ==
    /\ pc = "finished"
    /\ \E orders \in IterationOrders(<<CodeSegment, seg>>) :
          finish_returns(finish(<<new_program_header(PF_R + PF_X, U64(4096), CodeSegment),
                                  new_program_header(PF_R + PF_X, U64(4096), seg)>>,
                                <<CodeSegment, seg>>, orders))

NextFinish == FinishSweeps \/ FinishPanics \/ LinkEntryAndCode

SpecFinish == InitFinish /\ [][NextFinish]_vars

\* ---------------------------------------------------------------------------
\* Properties of Assembler::finish.  In a state where finish has returned,
\* ret is the Assembler it received and seg the segment it returned.
\* ---------------------------------------------------------------------------

FinishReturned == pc = "finished"

\* the references of the j-th candidate of a pending instruction
CandidateReferences(p, j) == references(p.options[j])

\* some candidate of p references a label the segment does not define, or
\* uses a format that is not relative
Forced(a, p) ==
    \E j \in 1..Len(p.options) :
        \E k \in 1..Len(CandidateReferences(p, j)) :
            \/ CandidateReferences(p, j)[k].label.Label \notin DOMAIN a.segment.labels
            \/ CandidateReferences(p, j)[k].reference.format \in {"Abs32", "Abs64"}

\* the index of the largest candidate (the first of them if several are)
LargestCandidate(p) ==
    CHOOSE j \in 1..Len(p.options) :
        /\ \A i \in 1..Len(p.options) :
              Len(serialize(p.options[i])) <= Len(serialize(p.options[j]))
        /\ \A i \in 1..(j - 1) :
              Len(serialize(p.options[i])) < Len(serialize(p.options[j]))

\* the reserved region of p in data
Region(data, p) == SubSeq(data, p.location + 1, p.location + p.size)

\* the region holds bytes, then only 0x90
CommittedAs(data, p, bytes) ==
    /\ Len(bytes) <= p.size
    /\ Region(data, p) = bytes \o [k \in 1..(p.size - Len(bytes)) |-> 144]

\* how often the segment holds the reference r of p, moved to p's location
TimesRecorded(segment, p, r) ==
    IF r.label.Label \notin DOMAIN segment.references THEN 0
    ELSE Cardinality({ i \in 1..Len(segment.references[r.label.Label]) :
            segment.references[r.label.Label][i] =
                [location |-> p.location + r.reference.location,
                 format |-> r.reference.format] })

ForcedCommit(a, segment, p) ==
    /\ CommittedAs(segment.data, p, serialize(p.options[LargestCandidate(p)]))
    /\ \A k \in 1..Len(CandidateReferences(p, LargestCandidate(p))) :
          TimesRecorded(segment, p, CandidateReferences(p, LargestCandidate(p))[k]) = 1

\* C25: after finish, every pending instruction with a candidate that
\* references a label the segment does not define, or that has a reference of
\* an absolute format, has its region filled with its largest candidate as
\* serialized (the reference field still zero, not resolved by the second
\* sweep) followed by 0x90, and each reference of that candidate is on the
\* segment once, at pending.location + reference.location.
C25_ForcedLargest ==
    FinishReturned =>
        \A k \in 1..Len(ret.pending_instructions) :
            Forced(ret, ret.pending_instructions[k]) =>
                ForcedCommit(ret, seg, ret.pending_instructions[k])

\* label a at 124 and MOV RSI, a there: 48 BE and eight zero bytes, with the
\* Abs64 reference at 126
C25_Witness ==
    /\ FinishReturned
    /\ call = [steps |-> << [fn |-> "label", name |-> "a"],
                            [fn |-> "push",
                             instruction |-> [form |-> "MOV_R64_Label",
                                              f0 |-> Reg64("RSI"),
                                              f1 |-> [Label |-> "a"]]] >>,
               at |-> 0, gap |-> MaxGap - 3]
    /\ Forced(ret, ret.pending_instructions[1])
    /\ Region(seg.data, ret.pending_instructions[1]) = <<72, 190, 0, 0, 0, 0, 0, 0, 0, 0>>
    /\ seg.references["a"] = << [location |-> MaxGap - 1, format |-> "Abs64"] >>

\* the displacement of reference r of pending instruction p in Assembler a:
\* from the byte after the reference field to the label
DisplacementOf(a, p, r) ==
    a.segment.labels[r.label.Label]
        - (p.location + r.reference.location + len(r.reference.format))

\* d is a value of the signed integer the format holds (the data of these
\* programs is far shorter than the 32-bit range)
Representable(format, d) == format = "Rel8" => (d >= -128 /\ d <= 127)

\* every reference of the j-th candidate is relative, has its label in the
\* segment and a representable displacement
Feasible(a, p, j) ==
    \A k \in 1..Len(CandidateReferences(p, j)) :
        /\ CandidateReferences(p, j)[k].label.Label \in DOMAIN a.segment.labels
        /\ CandidateReferences(p, j)[k].reference.format \in {"Rel8", "Rel32"}
        /\ Representable(CandidateReferences(p, j)[k].reference.format,
                      DisplacementOf(a, p, CandidateReferences(p, j)[k]))

HasFeasible(a, p) == \E j \in 1..Len(p.options) : Feasible(a, p, j)

FirstFeasible(a, p) ==
    CHOOSE j \in 1..Len(p.options) :
        Feasible(a, p, j) /\ \A i \in 1..(j - 1) : ~Feasible(a, p, i)

\* the j-th candidate serialized, the displacement in every reference field
ResolvedCandidate(a, p, j) ==
    [i \in 1..Len(serialize(p.options[j])) |->
        IF \E k \in 1..Len(CandidateReferences(p, j)) :
              /\ i > CandidateReferences(p, j)[k].reference.location
              /\ i <= CandidateReferences(p, j)[k].reference.location
                        + len(CandidateReferences(p, j)[k].reference.format)
        THEN LET r == CandidateReferences(p, j)[
                        CHOOSE k \in 1..Len(CandidateReferences(p, j)) :
                            /\ i > CandidateReferences(p, j)[k].reference.location
                            /\ i <= CandidateReferences(p, j)[k].reference.location
                                      + len(CandidateReferences(p, j)[k].reference.format)]
             IN  ToLeBytes(DisplacementOf(a, p, r), len(r.reference.format))
                     [i - r.reference.location]
        ELSE serialize(p.options[j])[i]]

\* the pending instructions the first sweep leaves to the second
Remaining(a) ==
    { k \in 1..Len(a.pending_instructions) : ~Forced(a, a.pending_instructions[k]) }

\* C26: for each pending instruction left to the second sweep the first
\* candidate in list order whose every displacement is representable in its
\* format is committed, followed by 0x90 up to the reserved length and never
\* longer than it; finish fails with NoViableEncoding exactly when one of these
\* instructions has no feasible candidate.
C26_ShortestViable ==
    /\ FinishReturned =>
          \A k \in Remaining(ret) :
              /\ HasFeasible(ret, ret.pending_instructions[k])
              /\ CommittedAs(seg.data, ret.pending_instructions[k],
                     ResolvedCandidate(ret, ret.pending_instructions[k],
                         FirstFeasible(ret, ret.pending_instructions[k])))
    /\ pc = "panicked" =>
          /\ panic = "NoViableEncoding"
          /\ \E k \in Remaining(ret) : ~HasFeasible(ret, ret.pending_instructions[k])

\* no reference of any candidate of p is recorded on the segment at p
NothingRecorded(segment, p) ==
    \A j \in 1..Len(p.options) :
        \A k \in 1..Len(CandidateReferences(p, j)) :
            TimesRecorded(segment, p, CandidateReferences(p, j)[k]) = 0

\* p was committed by the first sweep: a candidate as serialized, its
\* references recorded once each
CommittedBySweep1(segment, p) ==
    \E j \in 1..Len(p.options) :
        /\ CommittedAs(segment.data, p, serialize(p.options[j]))
        /\ \A k \in 1..Len(CandidateReferences(p, j)) :
              TimesRecorded(segment, p, CandidateReferences(p, j)[k]) = 1

\* p was committed by the second sweep: a candidate with its displacements
\* written, and no reference recorded
CommittedBySweep2(a, segment, p) ==
    /\ \E j \in 1..Len(p.options) :
          /\ Feasible(a, p, j)
          /\ CommittedAs(segment.data, p, ResolvedCandidate(a, p, j))
    /\ NothingRecorded(segment, p)

\* byte i of the data lies in the reserved region of a pending instruction
InReservedRegion(a, i) ==
    \E k \in 1..Len(a.pending_instructions) :
        /\ i > a.pending_instructions[k].location
        /\ i <= a.pending_instructions[k].location + a.pending_instructions[k].size

\* C27: a finish that returns has committed every pending instruction in
\* exactly one of the two sweeps, so that its reserved region is one
\* candidate's serialization followed only by 0x90, and has left every byte
\* outside the reserved regions as push left it.
C27_CommittedOnce ==
    FinishReturned =>
        /\ \A k \in 1..Len(ret.pending_instructions) :
              CommittedBySweep1(seg, ret.pending_instructions[k])
                  # CommittedBySweep2(ret, seg, ret.pending_instructions[k])
        /\ Len(seg.data) = Len(ret.segment.data)
        /\ \A i \in 1..Len(seg.data) :
              ~InReservedRegion(ret, i) => seg.data[i] = ret.segment.data[i]

\* a jump to a, 124 NOP, label a and MOV RSI, a: the jump is resolved by the
\* second sweep as EB 7F, the MOV committed by the first
C27_Witness ==
    /\ FinishReturned
    /\ Len(ret.pending_instructions) = 2
    /\ ret.pending_instructions[1].location = 0
    /\ ret.pending_instructions[2].location = MaxGap + 2
    /\ Region(seg.data, ret.pending_instructions[1]) = <<235, 127, 144, 144, 144>>
    /\ Region(seg.data, ret.pending_instructions[2]) = <<72, 190, 0, 0, 0, 0, 0, 0, 0, 0>>
    /\ CommittedBySweep2(ret, seg, ret.pending_instructions[1])
    /\ CommittedBySweep1(seg, ret.pending_instructions[2])
    /\ seg.data[6] = 144 /\ ret.segment.data[1] = 0

\* addresses at which the linker places a segment: the start address, the
\* address after 32 bytes of code on the next page, and two low ones
PlacementAddresses ==
    {start_vaddr, Add64(start_vaddr, U64(4128)), Zero64, U64(4096)}

\* what ElfLinker::finish would do to the field of reference r of pending
\* instruction p with the segment at p_vaddr
LinkerWrites(a, segment, p, r, p_vaddr) ==
    apply_reference(segment.data, [p_vaddr |-> p_vaddr],
                    [location |-> p.location + r.reference.location,
                     format |-> r.reference.format],
                    Add64(p_vaddr, U64(a.segment.labels[r.label.Label])))

\* the j-th candidate is what the second sweep wrote for p, and the linker
\* would compute the bytes that are there for each of its references
LinkerAgrees(a, segment, p, j) ==
    /\ Feasible(a, p, j)
    /\ CommittedAs(segment.data, p, ResolvedCandidate(a, p, j))
    /\ \A k \in 1..Len(CandidateReferences(p, j)) :
          \A v \in PlacementAddresses :
              LinkerWrites(a, segment, p, CandidateReferences(p, j)[k], v)
                  = [panic |-> "none", data |-> segment.data]

\* the code segment after the linker has run
LinkedCode == segments[Len(segments)]

\* C28: a displacement the second sweep wrote is the value ElfLinker::finish
\* would compute for that field and label with the segment at any address,
\* no reference for it is left on the segment, and after linking the region
\* of the instruction is as the second sweep left it.
C28_Sweep2Final ==
    /\ FinishReturned =>
          \A k \in Remaining(ret) :
              /\ NothingRecorded(seg, ret.pending_instructions[k])
              /\ \E j \in 1..Len(ret.pending_instructions[k].options) :
                    LinkerAgrees(ret, seg, ret.pending_instructions[k], j)
    /\ (pc = "done" /\ linked.some) =>
          \A k \in Remaining(ret) :
              Region(LinkedCode.data, ret.pending_instructions[k])
                  = Region(seg.data, ret.pending_instructions[k])

\* a jump to a, 124 NOP, label a and MOV RSI, a, linked after 32 bytes of
\* code: the jump is still EB 7F 90 90 90 and the linker has written the
\* address of a into the MOV
C28_Witness ==
    /\ pc = "done" /\ linked.some
    /\ Len(segments) = 2
    /\ segment_headers[2].p_vaddr = Add64(start_vaddr, U64(4128))
    /\ Len(ret.pending_instructions) = 2
    /\ Remaining(ret) = {1}
    /\ Region(LinkedCode.data, ret.pending_instructions[1]) = <<235, 127, 144, 144, 144>>
    /\ Region(seg.data, ret.pending_instructions[2]) = <<72, 190, 0, 0, 0, 0, 0, 0, 0, 0>>
    /\ Region(LinkedCode.data, ret.pending_instructions[2])
           = <<72, 190>> \o Bytes64(Add64(start_vaddr, U64(4128 + MaxGap + 2)))

\* ---------------------------------------------------------------------------
\* The linker with alignments up to the distance from the start address to
\* the end of the address space, and with segments that may be empty.
\* ---------------------------------------------------------------------------

\* 2^31 = 2^64 - start_vaddr
AlignSetWide == AlignSet \cup {<<0, 0, 32768, 0>>}

SegmentInputsWide ==
    { [flags |-> PF_R + PF_W, segment |-> DataSegment],
      [flags |-> PF_R + PF_X, segment |-> CodeSegment],
      [flags |-> PF_R,        segment |-> Segment_new] }

\* a + b in u64 overflows
add_overflows(a, b) == Lt64(Add64(a, b), a)

\* finish: an addition of the layout loop overflows, from segment i on
RECURSIVE layout_overflows(_, _, _, _)
layout_overflows(i, headers, segs, current_vaddr) ==
    IF i > Len(headers) THEN FALSE
    ELSE \/ /\ Mod64(current_vaddr, headers[i].p_align) # Zero64
            /\ add_overflows(current_vaddr, headers[i].p_align)
         \/ add_overflows(next_page(current_vaddr, headers[i].p_align),
                          U64(Len(segs[i].data)))
         \/ layout_overflows(i + 1, headers, segs,
                Add64(next_page(current_vaddr, headers[i].p_align),
                      U64(Len(segs[i].data))))

\* finish: the start address rounded up, or a later address, overflows
finish_overflows(headers, segs) ==
    /\ Len(headers) > 0
    /\ \/ align_up_overflows(start_vaddr, headers[1].p_align)
       \/ layout_overflows(1, headers, segs, align_up(start_vaddr, headers[1].p_align))

\* the wide alignment is given to later segments only: on the first one it
\* would put 2^31 bytes of padding into the image
AddSegmentWide ==
    \E input \in SegmentInputsWide,
       p_align \in IF segments = << >> THEN AlignSet ELSE AlignSetWide :
        add_segment(input.flags, p_align, input.segment)

\* finish in a build with overflow checks, when an address overflows; Finish
\* is then the build without them, where the address wraps
FinishOverflowPanics ==
    /\ pc = "building"
    /\ finish_overflows(segment_headers, segments)
    /\ finish_returns(finish_panic("ArithmeticOverflow", segment_headers, segments))

NextWide == AddSegmentWide \/ Finish \/ FinishOverflowPanics

SpecWide == Init /\ [][NextWide]_vars

\* ---------------------------------------------------------------------------
\* Properties of the layout
\* ---------------------------------------------------------------------------

\* the range [start, start + size) of segment i ends at or before the range
\* of segment j starts
RangeBefore(start_i, size_i, start_j) ==
    ~add_overflows(start_i, size_i) /\ Le64(Add64(start_i, size_i), start_j)

RangesIncrease ==
    /\ \A i, j \in 1..Len(segment_headers) :
          i < j =>
              /\ RangeBefore(segment_headers[i].p_vaddr, segment_headers[i].p_memsz,
                             segment_headers[j].p_vaddr)
              /\ RangeBefore(segment_headers[i].p_offset, segment_headers[i].p_filesz,
                             segment_headers[j].p_offset)
    /\ \A i \in 1..Len(segment_headers) :
          Le64(program_header_end(Len(segment_headers)), segment_headers[i].p_offset)

\* C29: after a finish that succeeds, the address range of each segment ends
\* at or before the address range of every later segment starts, likewise the
\* file ranges, and every file range starts at or after the end of the
\* program header table.
C29_RangesIncrease == Succeeded => RangesIncrease

\* C29 with the address arithmetic in range: if no address of the layout
\* exceeds 2^64 - 1 the ranges are as stated; if one does, finish either
\* panics or carries on with the address wrapped.
C29_RangesIncreaseInRange ==
    /\ (Succeeded /\ ~finish_overflows(segment_headers, segments)) => RangesIncrease
    /\ (pc = "done" /\ panic = "ArithmeticOverflow") =>
          finish_overflows(segment_headers, segments)

\* data of 16 bytes aligned to 16, then code aligned to 4096: the code is at
\* the start address + 16 + 4096 and follows the data directly in the file
C29_Witness ==
    /\ Succeeded
    /\ Len(segment_headers) = 2
    /\ segment_headers[1].p_memsz = U64(16)
    /\ segment_headers[2].p_align = U64(4096)
    /\ segment_headers[1].p_vaddr = start_vaddr
    /\ segment_headers[2].p_vaddr = Add64(start_vaddr, U64(4112))
    /\ segment_headers[2].p_offset = Add64(segment_headers[1].p_offset, U64(16))
    /\ ~finish_overflows(segment_headers, segments)

-----------------------------------------------------------------------------
(* Properties of the memory operands *)

\* the forms with an Indirect(R64) or an Index(R64, disp8) operand
RegisterMemoryForms == {"MOV_R64_Indirect", "MOV_Indirect_R64", "MOV_R64_Index_R64_i8"}

\* the mod and r/m fields of the ModR/M byte and the base field of the SIB
\* byte of the bytes returned
ModOf(bytes) == bytes[ModRMAt(bytes)] \div 64

RmOf(bytes) == bytes[ModRMAt(bytes)] % 8

SibBaseOf(bytes) == bytes[ModRMAt(bytes) + 1] % 8

\* C30: no encoding returned for an Indirect(R64) or Index(R64, disp8)
\* operand has r/m = 100 (a SIB byte follows) or mod = 00 with r/m = 101
\* (RIP-relative), and none returned for an Index(R64, R64) operand has mod =
\* 00 with the SIB base field 101 (no base, disp32 follows): the encoder
\* rejects the registers that would give these.
C30_MemoryOperandsDecode ==
    /\ (pc = "encoded" /\ call.form \in RegisterMemoryForms) =>
          /\ RmOf(ret.bytes) # 4
          /\ ~(ModOf(ret.bytes) = 0 /\ RmOf(ret.bytes) = 5)
    /\ (pc = "encoded" /\ call.form \in IndexedForms) =>
          ~(ModOf(ret.bytes) = 0 /\ RmOf(ret.bytes) = 4 /\ SibBaseOf(ret.bytes) = 5)

=============================================================================
